---- MODULE Spec2Model ----
(***************************************************************************)
(* A model of the NOVA Python SDK core: the bech32 address codec, the      *)
(* canonical signable bytes of a transaction, the transaction id, and the  *)
(* sign / verify protocol.                                                 *)
(*                                                                         *)
(* Representation:                                                         *)
(*   - a Python `bytes` value is a sequence of naturals in 0..255;         *)
(*   - a Python `str` is a sequence of code points (ASCII in the inputs);  *)
(*   - a Python `int` is a record [neg, mag]: a sign and a little-endian   *)
(*     sequence of base-65536 limbs without trailing zero limbs, because   *)
(*     the values the code packs (u64) do not fit TLC's 32-bit integers;   *)
(*   - a call that raises returns a record [ok |-> FALSE, err |-> kind];   *)
(*     a call that returns yields [ok |-> TRUE, ...].                      *)
(***************************************************************************)
EXTENDS Integers, Sequences, FiniteSets, TLC

VARIABLES
    key,        \* codec harness: the 32-byte public key under test
    addr,       \* codec harness: the address string last produced / given
    parsed,     \* codec harness: outcome of the last parse_nova_id call
    tx,         \* the Transaction under test (outcome of construction)
    seed,       \* the 32-byte signing seed in use
    signed,     \* outcome of the last sign_transaction call
    verdict,    \* outcome of the last verify_transaction call
    tampered,   \* name of the field replaced since signing ("none" if none)
    now,        \* the clock (time.time()), in seconds
    calls,      \* record of the calls made, in order
    builder,    \* the TransactionBuilder in hand (its private fields)
    clients     \* the NovaClient objects, by name (their private fields)

vars ==
    <<key, addr, parsed, tx, seed, signed, verdict, tampered, now, calls,
      builder, clients>>

None == [ok |-> FALSE, err |-> "none"]

Raise(kind) == [ok |-> FALSE, err |-> kind]

(***************************************************************************)
(* Bit operations on naturals (Python's ^, &, >>, <<).                     *)
(***************************************************************************)
RECURSIVE XorBits(_, _, _)
XorBits(a, b, n) ==
    IF n = 0 THEN 0
    ELSE (((a % 2) + (b % 2)) % 2) + 2 * XorBits(a \div 2, b \div 2, n - 1)

RECURSIVE AndBits(_, _, _)
AndBits(a, b, n) ==
    IF n = 0 THEN 0
    ELSE ((a % 2) * (b % 2)) + 2 * AndBits(a \div 2, b \div 2, n - 1)

Xor8 == [a \in 0..255 |-> [b \in 0..255 |-> XorBits(a, b, 8)]]

And8 == [a \in 0..255 |-> [b \in 0..255 |-> AndBits(a, b, 8)]]

\* a ^ b for 0 <= a, b < 2^31, one byte at a time
Xor(a, b) ==
    Xor8[a % 256][b % 256]
    + 256 * Xor8[(a \div 256) % 256][(b \div 256) % 256]
    + 65536 * Xor8[(a \div 65536) % 256][(b \div 65536) % 256]
    + 16777216 * Xor8[a \div 16777216][b \div 16777216]

RECURSIVE Pow2Rec(_)
Pow2Rec(n) == IF n = 0 THEN 1 ELSE 2 * Pow2Rec(n - 1)

Pow2Table == [n \in 0..30 |-> Pow2Rec(n)]

\* 1 << n, 0 <= n <= 30
Pow2(n) == Pow2Table[n]

(***************************************************************************)
(* Strings: str.lower(), str.upper(), str.rfind, str.startswith on         *)
(* sequences of code points.  Only ASCII letters change case in the        *)
(* alphabet the model draws from.                                          *)
(***************************************************************************)
LowerChar(c) == IF c >= 65 /\ c <= 90 THEN c + 32 ELSE c

UpperChar(c) == IF c >= 97 /\ c <= 122 THEN c - 32 ELSE c

Lower(s) == [i \in 1..Len(s) |-> LowerChar(s[i])]

Upper(s) == [i \in 1..Len(s) |-> UpperChar(s[i])]

\* 0-based index of the last occurrence of c in s, -1 when absent
RFind(s, c) ==
    LET hits == {i \in 1..Len(s) : s[i] = c}
    IN  IF hits = {} THEN -1
        ELSE (CHOOSE i \in hits : \A j \in hits : j <= i) - 1

StartsWith(s, p) == Len(s) >= Len(p) /\ SubSeq(s, 1, Len(p)) = p

\* 0-based index of c in the sequence s, -1 when absent (str.index raises)
IndexOf(s, c) ==
    LET hits == {i \in 1..Len(s) : s[i] = c}
    IN  IF hits = {} THEN -1
        ELSE (CHOOSE i \in hits : \A j \in hits : i <= j) - 1

(***************************************************************************)
(* Bech32 (types.py)                                                       *)
(***************************************************************************)
\* "qpzry9x8gf2tvdw0s3jn54khce6mua7l"
_BECH32_CHARSET ==
    <<113, 112, 122, 114, 121, 57, 120, 56, 103, 102, 50, 116, 118, 100, 119,
      48, 115, 51, 106, 110, 53, 52, 107, 104, 99, 101, 54, 109, 117, 97, 55,
      108>>

\* "nova"
_BECH32_HRP == <<110, 111, 118, 97>>

\* 0x3B6A57B2, 0x26508E6D, 0x1EA119FA, 0x3D4233DD, 0x2A1462B3
\* 0x3B6A57B2, 0x26508E6D, 0x1EA119FA, 0x3D4233DD, 0x2A1462B3
PolymodGen == <<996825010, 642813549, 513874426, 1027748829, 705979059>>

RECURSIVE PolymodXorGen(_, _, _)
\* for i in range(5): chk ^= gen[i] if ((top >> i) & 1) else 0
PolymodXorGen(chk, top, i) ==
    IF i = 5 THEN chk
    ELSE PolymodXorGen(IF (top \div Pow2(i)) % 2 = 1
                       THEN Xor(chk, PolymodGen[i + 1]) ELSE chk,
                       top, i + 1)

\* one iteration of the loop over values:
\* top = chk >> 25; chk = ((chk & 0x1FFFFFF) << 5) ^ v; then the gen loop
PolymodStep(chk, v) ==
    PolymodXorGen(Xor((chk % 33554432) * 32, v), chk \div 33554432, 0)

RECURSIVE PolymodFrom(_, _, _)
\* the loop over values[i..]; chk is a 30-bit natural throughout
PolymodFrom(chk, values, i) ==
    IF chk < 0 \/ i > Len(values) THEN chk
    ELSE PolymodFrom(PolymodStep(chk, values[i]), values, i + 1)

_bech32_polymod(values) == PolymodFrom(1, values, 1)

_bech32_hrp_expand(hrp) ==
    [i \in 1..Len(hrp) |-> hrp[i] \div 32] \o <<0>>
        \o [i \in 1..Len(hrp) |-> hrp[i] % 32]

\* Fault variant of _bech32_create_checksum: the bech32m constant 0x2bc830a3
\* in place of 1
_bech32_create_checksum_m(hrp, data) ==
    LET Words(polymod) == [i \in 1..6 |-> (polymod \div Pow2(5 * (6 - i))) % 32]
    IN  Words(Xor(_bech32_polymod(_bech32_hrp_expand(hrp) \o data
                                      \o <<0, 0, 0, 0, 0, 0>>), 734539939))

_bech32_create_checksum(hrp, data) ==
    LET Words(polymod) == [i \in 1..6 |-> (polymod \div Pow2(5 * (6 - i))) % 32]
    IN  Words(Xor(_bech32_polymod(_bech32_hrp_expand(hrp) \o data
                                      \o <<0, 0, 0, 0, 0, 0>>), 1))

_bech32_verify_checksum(hrp, data) ==
    _bech32_polymod(_bech32_hrp_expand(hrp) \o data) = 1

(***************************************************************************)
(* _convertbits.  Python's acc grows without bound; only its low           *)
(* frombits + tobits - 1 bits are ever read, so acc is kept modulo         *)
(* 2^(frombits + tobits - 1).  st = [acc, bits, ret, bad].                 *)
(***************************************************************************)
RECURSIVE ConvertDrain(_, _, _, _)
\* while bits >= tobits: bits -= tobits; ret.append((acc >> bits) & maxv)
ConvertDrain(acc, bits, ret, tobits) ==
    IF bits >= tobits
    THEN ConvertDrain(acc, bits - tobits,
                      Append(ret, (acc \div Pow2(bits - tobits)) % Pow2(tobits)),
                      tobits)
    ELSE [acc |-> acc, bits |-> bits, ret |-> ret, bad |-> FALSE]

RECURSIVE ConvertLoop(_, _, _, _, _)
\* for value in data[i..]: the range check, the shift-in and the drain
ConvertLoop(data, i, st, frombits, tobits) ==
    IF st.bad \/ i > Len(data) THEN st
    ELSE IF data[i] < 0 \/ data[i] \div Pow2(frombits) # 0
         THEN [st EXCEPT !.bad = TRUE]
         ELSE ConvertLoop(data, i + 1,
                          ConvertDrain(((st.acc * Pow2(frombits)) + data[i])
                                           % Pow2(frombits + tobits - 1),
                                       st.bits + frombits, st.ret, tobits),
                          frombits, tobits)

\* Fault variant of _convertbits: without padding the leftover bits are not
\* looked at (the second half of the elif is missing)
_convertbits_m(data, frombits, tobits, pad) ==
    LET Rest(st) == (st.acc * Pow2(tobits - st.bits)) % Pow2(tobits)
        End(st) ==
            IF st.bad THEN Raise("invalid value for convertbits")
            ELSE IF pad
                 THEN [ok |-> TRUE,
                       ret |-> IF st.bits # 0 THEN Append(st.ret, Rest(st))
                               ELSE st.ret]
                 ELSE IF st.bits >= frombits
                      THEN Raise("non-zero padding bits")
                      ELSE [ok |-> TRUE, ret |-> st.ret]
    IN  End(ConvertLoop(data, 1,
                        [acc |-> 0, bits |-> 0, ret |-> <<>>, bad |-> FALSE],
                        frombits, tobits))

_convertbits(data, frombits, tobits, pad) ==
    LET Rest(st) == (st.acc * Pow2(tobits - st.bits)) % Pow2(tobits)
        End(st) ==
            IF st.bad THEN Raise("invalid value for convertbits")
            ELSE IF pad
                 THEN [ok |-> TRUE,
                       ret |-> IF st.bits # 0 THEN Append(st.ret, Rest(st))
                               ELSE st.ret]
                 ELSE IF st.bits >= frombits \/ Rest(st) # 0
                      THEN Raise("non-zero padding bits")
                      ELSE [ok |-> TRUE, ret |-> st.ret]
    IN  End(ConvertLoop(data, 1,
                        [acc |-> 0, bits |-> 0, ret |-> <<>>, bad |-> FALSE],
                        frombits, tobits))

\* bech32_encode is only called on bytes, for which _convertbits cannot raise
bech32_encode(hrp, data) ==
    LET Chars(combined) ==
            [i \in 1..Len(combined) |-> _BECH32_CHARSET[combined[i] + 1]]
        Encoded(values) ==
            hrp \o <<49>> \o Chars(values \o _bech32_create_checksum(hrp, values))
    IN  Encoded(_convertbits(data, 8, 5, TRUE).ret)

\* Fault variant of bech32_decode: the separator may be the first character
\* (pos < 0 in place of pos < 1)
bech32_decode_m(bech0) ==
    LET Result(hrp, decoded) ==
            IF ~decoded.ok THEN decoded
            ELSE [ok |-> TRUE, hrp |-> hrp, data |-> decoded.ret]
        Checked(hrp, data_part) ==
            IF \E i \in 1..Len(data_part) : data_part[i] < 0
            THEN Raise("substring not found")
            ELSE IF ~_bech32_verify_checksum(hrp, data_part)
            THEN Raise("invalid bech32 checksum")
            ELSE Result(hrp, _convertbits(SubSeq(data_part, 1, Len(data_part) - 6),
                                          5, 8, FALSE))
        DataPart(tail) ==
            [i \in 1..Len(tail) |-> IndexOf(_BECH32_CHARSET, tail[i])]
        Split(bech, pos) ==
            IF pos < 0 \/ pos + 7 > Len(bech)
            THEN Raise("invalid bech32 separator position")
            ELSE Checked(SubSeq(bech, 1, pos),
                         DataPart(SubSeq(bech, pos + 2, Len(bech))))
        Lowered(bech) == Split(bech, RFind(bech, 49))
    IN  IF bech0 # Lower(bech0) /\ bech0 # Upper(bech0)
        THEN Raise("mixed-case bech32 string")
        ELSE Lowered(Lower(bech0))

bech32_decode(bech0) ==
    LET Result(hrp, decoded) ==
            IF ~decoded.ok THEN decoded
            ELSE [ok |-> TRUE, hrp |-> hrp, data |-> decoded.ret]
        Checked(hrp, data_part) ==
            IF \E i \in 1..Len(data_part) : data_part[i] < 0
            THEN Raise("substring not found")
            ELSE IF ~_bech32_verify_checksum(hrp, data_part)
            THEN Raise("invalid bech32 checksum")
            ELSE Result(hrp, _convertbits(SubSeq(data_part, 1, Len(data_part) - 6),
                                          5, 8, FALSE))
        DataPart(tail) ==
            [i \in 1..Len(tail) |-> IndexOf(_BECH32_CHARSET, tail[i])]
        Split(bech, pos) ==
            IF pos < 1 \/ pos + 7 > Len(bech)
            THEN Raise("invalid bech32 separator position")
            ELSE Checked(SubSeq(bech, 1, pos),
                         DataPart(SubSeq(bech, pos + 2, Len(bech))))
        Lowered(bech) == Split(bech, RFind(bech, 49))
    IN  IF bech0 # Lower(bech0) /\ bech0 # Upper(bech0)
        THEN Raise("mixed-case bech32 string")
        ELSE Lowered(Lower(bech0))

(***************************************************************************)
(* identity.py                                                             *)
(***************************************************************************)
_HRP == <<110, 111, 118, 97>>

\* Fault variant of create_nova_id: only keys shorter than 32 bytes are refused
create_nova_id_m(public_key) ==
    IF Len(public_key) < 32 THEN Raise("public key must be 32 bytes")
    ELSE [ok |-> TRUE, value |-> bech32_encode(_HRP, public_key)]

create_nova_id(public_key) ==
    IF Len(public_key) # 32 THEN Raise("public key must be 32 bytes")
    ELSE [ok |-> TRUE, value |-> bech32_encode(_HRP, public_key)]

\* Fault variant of parse_nova_id: the length is checked before the prefix
parse_nova_id_m(address) ==
    LET Decoded(d) ==
            IF ~d.ok THEN d
            ELSE IF Len(d.data) # 32 THEN Raise("decoded key must be 32 bytes")
            ELSE IF d.hrp # _HRP THEN Raise("expected HRP")
            ELSE [ok |-> TRUE, value |-> d.data]
    IN  Decoded(bech32_decode(address))

parse_nova_id(address) ==
    LET Decoded(d) ==
            IF ~d.ok THEN d
            ELSE IF d.hrp # _HRP THEN Raise("expected HRP")
            ELSE IF Len(d.data) # 32 THEN Raise("decoded key must be 32 bytes")
            ELSE [ok |-> TRUE, value |-> d.data]
    IN  Decoded(bech32_decode(address))


(***************************************************************************)
(* Python integers.  [neg |-> sign, mag |-> little-endian base-65536       *)
(* limbs, no trailing zero limb]; zero is [neg |-> FALSE, mag |-> <<>>].   *)
(***************************************************************************)
\* the Python int with the value of the (small) integer n
FromInt(n) ==
    LET m == IF n < 0 THEN 0 - n ELSE n
    IN  [neg |-> n < 0,
         mag |-> IF m = 0 THEN <<>>
                 ELSE IF m < 65536 THEN <<m>>
                 ELSE <<m % 65536, m \div 65536>>]

\* the Python int with the given limbs (least significant first)
FromLimbs(limbs) == [neg |-> FALSE, mag |-> limbs]

\* Field(ge=0) and Field(ge=1) of pydantic
Ge0(v) == ~v.neg

Ge1(v) == ~v.neg /\ v.mag # <<>>

\* Fault variant of StructPack: big-endian (">H", ">I", ">Q")
StructPackBigEndian(v, nbytes) ==
    IF v.neg \/ 2 * Len(v.mag) > nbytes
    THEN Raise("struct.error")
    ELSE [ok |-> TRUE,
          value |-> [i \in 1..nbytes |->
                        LET k    == nbytes + 1 - i
                            limb == IF (k + 1) \div 2 <= Len(v.mag)
                                    THEN v.mag[(k + 1) \div 2] ELSE 0
                        IN  IF k % 2 = 1 THEN limb % 256 ELSE limb \div 256]]

\* struct.pack("<H" / "<I" / "<Q", v): nbytes little-endian bytes of v, or
\* struct.error when v is negative or does not fit nbytes bytes
StructPack(v, nbytes) ==
    IF v.neg \/ 2 * Len(v.mag) > nbytes
    THEN Raise("struct.error")
    ELSE [ok |-> TRUE,
          value |-> [i \in 1..nbytes |->
                        LET limb == IF (i + 1) \div 2 <= Len(v.mag)
                                    THEN v.mag[(i + 1) \div 2] ELSE 0
                        IN  IF i % 2 = 1 THEN limb % 256 ELSE limb \div 256]]

\* str.encode("utf-8") of a sequence of code points
Utf8Char(c) ==
    IF c < 128 THEN <<c>>
    ELSE IF c < 2048 THEN <<192 + (c \div 64), 128 + (c % 64)>>
    ELSE IF c < 65536
         THEN <<224 + (c \div 4096), 128 + ((c \div 64) % 64), 128 + (c % 64)>>
         ELSE <<240 + (c \div 262144), 128 + ((c \div 4096) % 64),
                128 + ((c \div 64) % 64), 128 + (c % 64)>>

RECURSIVE Utf8From(_, _)
Utf8From(s, i) ==
    IF i > Len(s) THEN <<>> ELSE Utf8Char(s[i]) \o Utf8From(s, i + 1)

Utf8(s) == Utf8From(s, 1)

(***************************************************************************)
(***************************************************************************)
(* types.py: NovaId, Amount, Transaction                                   *)
(***************************************************************************)
\* Fault variant of NovaId._validate: checks the lowercased string and stores
\* the string as given
NovaId_validate_m(v0) ==
    LET Decoded(v, d) ==
            IF ~d.ok THEN Raise("invalid bech32 encoding")
            ELSE IF d.hrp # _BECH32_HRP THEN Raise("expected HRP")
            ELSE [ok |-> TRUE, value |-> v0]
        Lowered(v) ==
            IF ~StartsWith(v, <<110, 111, 118, 97, 49>>)
            THEN Raise("NovaId must start with 'nova1'")
            ELSE Decoded(v, bech32_decode(v))
    IN  Lowered(Lower(v0))

\* NovaId._validate: the stored (lowercased) address, or a ValueError
NovaId_validate(v0) ==
    LET Decoded(v, d) ==
            IF ~d.ok THEN Raise("invalid bech32 encoding")
            ELSE IF d.hrp # _BECH32_HRP THEN Raise("expected HRP")
            ELSE [ok |-> TRUE, value |-> v]
        Lowered(v) ==
            IF ~StartsWith(v, <<110, 111, 118, 97, 49>>)
            THEN Raise("NovaId must start with 'nova1'")
            ELSE Decoded(v, bech32_decode(v))
    IN  Lowered(Lower(v0))

\* the enum values of TransactionType (the snake_case interchange tokens)
TransactionType ==
    {"transfer", "credit_request", "credit_settlement", "token_mint", "token_burn"}

\* Amount(value=..., currency=...): ge=0, 1 <= len(currency) <= 12, upper()
Amount(value, currency) ==
    IF ~Ge0(value) \/ Len(currency) < 1 \/ Len(currency) > 12
    THEN Raise("ValidationError")
    ELSE [ok |-> TRUE, value |-> [value |-> value, currency |-> Upper(currency)]]

\* Transaction(...): pydantic validation of every field
Transaction(version, tx_type, sender, receiver, amount, fee, nonce, timestamp, payload) ==
    LET Validated(s, r) ==
            IF ~Ge1(version) \/ tx_type \notin TransactionType \/ ~s.ok \/ ~r.ok
               \/ ~amount.ok \/ ~Ge0(fee) \/ ~Ge0(nonce)
            THEN Raise("ValidationError")
            ELSE [ok |-> TRUE,
                  value |-> [version |-> version, tx_type |-> tx_type,
                             sender |-> s.value, receiver |-> r.value,
                             amount |-> amount.value, fee |-> fee, nonce |-> nonce,
                             timestamp |-> timestamp, payload |-> payload]]
    IN  Validated(NovaId_validate(sender), NovaId_validate(receiver))

(***************************************************************************)
(* transaction.py: the canonical signable bytes                            *)
(***************************************************************************)
\* the characters of each TransactionType value
TransactionTypeValue ==
    [t \in TransactionType |->
        CASE t = "transfer" -> <<116, 114, 97, 110, 115, 102, 101, 114>>
          [] t = "credit_request" ->
                <<99, 114, 101, 100, 105, 116, 95, 114, 101, 113, 117, 101, 115,
                  116>>
          [] t = "credit_settlement" ->
                <<99, 114, 101, 100, 105, 116, 95, 115, 101, 116, 116, 108, 101,
                  109, 101, 110, 116>>
          [] t = "token_mint" -> <<116, 111, 107, 101, 110, 95, 109, 105, 110, 116>>
          [] t = "token_burn" -> <<116, 111, 107, 101, 110, 95, 98, 117, 114, 110>>]

\* Fault variant of _TX_TYPE_WIRE: the enum value itself (tx_type.value)
_TX_TYPE_WIRE_value == TransactionTypeValue

\* Fault variant of _TX_TYPE_WIRE: two variants share one label (the
\* TOKEN_BURN entry repeats the label of TOKEN_MINT)
_TX_TYPE_WIRE_m ==
    [t \in TransactionType |->
        CASE t = "transfer" -> <<84, 114, 97, 110, 115, 102, 101, 114>>
          [] t = "credit_request" ->
                <<67, 114, 101, 100, 105, 116, 82, 101, 113, 117, 101, 115, 116>>
          [] t = "credit_settlement" ->
                <<67, 114, 101, 100, 105, 116, 83, 101, 116, 116, 108, 101, 109,
                  101, 110, 116>>
          [] t = "token_mint" -> <<84, 111, 107, 101, 110, 77, 105, 110, 116>>
          [] t = "token_burn" -> <<84, 111, 107, 101, 110, 77, 105, 110, 116>>]

\* the PascalCase wire labels: Transfer, CreditRequest, CreditSettlement,
\* TokenMint, TokenBurn
_TX_TYPE_WIRE ==
    [t \in TransactionType |->
        CASE t = "transfer" -> <<84, 114, 97, 110, 115, 102, 101, 114>>
          [] t = "credit_request" ->
                <<67, 114, 101, 100, 105, 116, 82, 101, 113, 117, 101, 115, 116>>
          [] t = "credit_settlement" ->
                <<67, 114, 101, 100, 105, 116, 83, 101, 116, 116, 108, 101, 109,
                  101, 110, 116>>
          [] t = "token_mint" -> <<84, 111, 107, 101, 110, 77, 105, 110, 116>>
          [] t = "token_burn" -> <<84, 111, 107, 101, 110, 66, 117, 114, 110>>]

\* the payload section: 0x01 + "<I" length + bytes when the payload is
\* non-empty, the single byte 0x00 otherwise
PayloadSection(payload) ==
    LET Framed(n) ==
            IF ~n.ok THEN n
            ELSE [ok |-> TRUE, value |-> <<1>> \o n.value \o payload]
    IN  IF payload # <<>> THEN Framed(StructPack(FromInt(Len(payload)), 4))
        ELSE [ok |-> TRUE, value |-> <<0>>]

signable_bytes(t) ==
    LET Joined(version, value, fee, nonce, timestamp, payload) ==
            IF ~version.ok THEN version
            ELSE IF ~value.ok THEN value
            ELSE IF ~fee.ok THEN fee
            ELSE IF ~nonce.ok THEN nonce
            ELSE IF ~timestamp.ok THEN timestamp
            ELSE IF ~payload.ok THEN payload
            ELSE [ok |-> TRUE,
                  value |-> version.value
                            \o _TX_TYPE_WIRE[t.tx_type] \o <<0>>
                            \o Utf8(t.sender) \o <<0>>
                            \o Utf8(t.receiver) \o <<0>>
                            \o value.value
                            \o Utf8(t.amount.currency) \o <<0>>
                            \o fee.value
                            \o nonce.value
                            \o timestamp.value
                            \o payload.value]
    IN  Joined(StructPack(t.version, 2), StructPack(t.amount.value, 8),
               StructPack(t.fee, 8), StructPack(t.nonce, 8),
               StructPack(t.timestamp, 8), PayloadSection(t.payload))

(***************************************************************************)
(* hashlib.sha256 (FIPS 180-4).  A 32-bit word is a pair <<hi, lo>> of     *)
(* 16-bit halves.                                                          *)
(***************************************************************************)
Xor16(a, b) == Xor8[a % 256][b % 256] + 256 * Xor8[a \div 256][b \div 256]

And16(a, b) == And8[a % 256][b % 256] + 256 * And8[a \div 256][b \div 256]

WXor(x, y) == <<Xor16(x[1], y[1]), Xor16(x[2], y[2])>>

WAnd(x, y) == <<And16(x[1], y[1]), And16(x[2], y[2])>>

WNot(x) == <<65535 - x[1], 65535 - x[2]>>

\* addition modulo 2^32
WAdd(x, y) ==
    LET lo == x[2] + y[2]
    IN  <<(x[1] + y[1] + (lo \div 65536)) % 65536, lo % 65536>>

\* rotate right by n, 0 < n < 32
Rotr(x, n) ==
    LET hi == IF n >= 16 THEN x[2] ELSE x[1]
        lo == IF n >= 16 THEN x[1] ELSE x[2]
        m  == n % 16
    IN  IF m = 0 THEN <<hi, lo>>
        ELSE <<(hi \div Pow2(m)) + ((lo % Pow2(m)) * Pow2(16 - m)),
               (lo \div Pow2(m)) + ((hi % Pow2(m)) * Pow2(16 - m))>>

\* shift right by n, 0 < n < 16
Shr(x, n) ==
    <<x[1] \div Pow2(n), (x[2] \div Pow2(n)) + ((x[1] % Pow2(n)) * Pow2(16 - n))>>

Sha256K ==
    <<
      <<17034, 12184>>, <<28983, 17553>>, <<46528, 64463>>, <<59829, 56229>>,
      <<14678, 49755>>, <<23025, 4593>>, <<37439, 33444>>, <<43804, 24277>>,
      <<55303, 43672>>, <<4739, 23297>>, <<9265, 34238>>, <<21772, 32195>>,
      <<29374, 23924>>, <<32990, 45566>>, <<39900, 1703>>, <<49563, 61812>>,
      <<58523, 27073>>, <<61374, 18310>>, <<4033, 40390>>, <<9228, 41420>>,
      <<11753, 11375>>, <<19060, 33962>>, <<23728, 43484>>, <<30457, 35034>>,
      <<38974, 20818>>, <<43057, 50797>>, <<45059, 10184>>, <<48985, 32711>>,
      <<50912, 3059>>, <<54695, 37191>>, <<1738, 25425>>, <<5161, 10599>>,
      <<10167, 2693>>, <<11803, 8504>>, <<19756, 28156>>, <<21304, 3347>>,
      <<25866, 29524>>, <<30314, 2747>>, <<33218, 51502>>, <<37490, 11397>>,
      <<41663, 59553>>, <<43034, 26187>>, <<49739, 35696>>, <<51052, 20899>>,
      <<53650, 59417>>, <<54937, 1572>>, <<62478, 13701>>, <<4202, 41072>>,
      <<6564, 49430>>, <<7735, 27656>>, <<10056, 30540>>, <<13488, 48309>>,
      <<14620, 3251>>, <<20184, 43594>>, <<23452, 51791>>, <<26670, 28659>>,
      <<29839, 33518>>, <<30885, 25455>>, <<33992, 30740>>, <<36039, 520>>,
      <<37054, 65530>>, <<42064, 27883>>, <<48889, 41975>>, <<50801, 30962>>
    >>

Sha256H0 ==
    <<
      <<27145, 58983>>, <<47975, 44677>>, <<15470, 62322>>, <<42319, 62778>>,
      <<20750, 21119>>, <<39685, 26764>>, <<8067, 55723>>, <<23520, 52505>>
    >>

SmallSigma0(x) == WXor(WXor(Rotr(x, 7), Rotr(x, 18)), Shr(x, 3))

SmallSigma1(x) == WXor(WXor(Rotr(x, 17), Rotr(x, 19)), Shr(x, 10))

BigSigma0(x) == WXor(WXor(Rotr(x, 2), Rotr(x, 13)), Rotr(x, 22))

BigSigma1(x) == WXor(WXor(Rotr(x, 6), Rotr(x, 11)), Rotr(x, 25))

Ch(x, y, z) == WXor(WAnd(x, y), WAnd(WNot(x), z))

Maj(x, y, z) == WXor(WXor(WAnd(x, y), WAnd(x, z)), WAnd(y, z))

\* the message with its padding: 0x80, zeros up to 56 mod 64, and the bit
\* the message with its padding: 0x80, zeros up to 56 mod 64, and the bit
\* length as 8 big-endian bytes (messages here are shorter than 2^28 bytes)
Sha256Pad(msg) ==
    msg \o <<128>> \o [i \in 1..((119 - (Len(msg) % 64)) % 64) |-> 0]
        \o <<0, 0, 0, 0, (8 * Len(msg)) \div 16777216,
             ((8 * Len(msg)) \div 65536) % 256, ((8 * Len(msg)) \div 256) % 256,
             (8 * Len(msg)) % 256>>

RECURSIVE Sha256Schedule(_)
\* the 64-word message schedule grown from the block's 16 words
Sha256Schedule(w) ==
    IF Len(w) >= 64 THEN w
    ELSE Sha256Schedule(
             Append(w, WAdd(WAdd(SmallSigma1(w[Len(w) - 1]), w[Len(w) - 6]),
                            WAdd(SmallSigma0(w[Len(w) - 14]), w[Len(w) - 15]))))

RECURSIVE Sha256Rounds(_, _, _)
\* rounds t..64 on the working variables s = <<a, b, c, d, e, f, g, h>>
Sha256Rounds(s, w, t) ==
    LET Shifted(t1, t2) ==
            <<WAdd(t1, t2), s[1], s[2], s[3], WAdd(s[4], t1), s[5], s[6], s[7]>>
    IN  IF Len(s) # 8 \/ t > 64 THEN s
        ELSE Sha256Rounds(
                 Shifted(WAdd(WAdd(WAdd(s[8], BigSigma1(s[5])), Ch(s[5], s[6], s[7])),
                              WAdd(Sha256K[t], w[t])),
                         WAdd(BigSigma0(s[1]), Maj(s[1], s[2], s[3]))),
                 w, t + 1)

\* the hash state after the 64-byte block starting at byte offset off + 1
Sha256Block(h, m, off) ==
    LET Words ==
            [i \in 1..16 |->
                <<(m[off + (4 * i) - 3] * 256) + m[off + (4 * i) - 2],
                  (m[off + (4 * i) - 1] * 256) + m[off + (4 * i)]>>]
        Added(s) == [i \in 1..8 |-> WAdd(h[i], s[i])]
    IN  Added(Sha256Rounds(h, Sha256Schedule(Words), 1))

RECURSIVE Sha256Blocks(_, _, _)
Sha256Blocks(h, m, off) ==
    IF Len(h) # 8 \/ off >= Len(m) THEN h
    ELSE Sha256Blocks(Sha256Block(h, m, off), m, off + 64)

\* hashlib.sha256(msg).digest(): 32 bytes
Sha256(msg) ==
    LET Half(word, i) == IF ((i - 1) % 4) < 2 THEN word[1] ELSE word[2]
        Byte(half, i) == IF i % 2 = 1 THEN half \div 256 ELSE half % 256
        Digest(h) == [i \in 1..32 |-> Byte(Half(h[(i + 3) \div 4], i), i)]
    IN  Digest(Sha256Blocks(Sha256H0, Sha256Pad(msg), 0))

\* bytes.hex() / hexdigest(): two lowercase hex digits per byte
HexDigit(d) == IF d < 10 THEN 48 + d ELSE 87 + d

Hex(bytes) ==
    [i \in 1..(2 * Len(bytes)) |->
        IF i % 2 = 1 THEN HexDigit(bytes[(i + 1) \div 2] \div 16)
        ELSE HexDigit(bytes[i \div 2] % 16)]

\* Fault variant of compute_transaction_id: one SHA-256 pass
compute_transaction_id_single(t) ==
    LET Id(data) ==
            IF ~data.ok THEN data
            ELSE [ok |-> TRUE, value |-> Hex(Sha256(data.value))]
    IN  Id(signable_bytes(t))

\* compute_transaction_id: hex(sha256(sha256(signable_bytes(tx))))
compute_transaction_id(t) ==
    LET Id(data) ==
            IF ~data.ok THEN data
            ELSE [ok |-> TRUE, value |-> Hex(Sha256(Sha256(data.value)))]
    IN  Id(signable_bytes(t))

(***************************************************************************)
(* identity.py: Ed25519 through PyNaCl, idealised.  The verifying key is   *)
(* a deterministic, injective function of the 32-byte seed; a signature    *)
(* stands for the 64 bytes Ed25519 returns and records the key and the     *)
(* message it was made for, so it verifies for exactly that key and that   *)
(* message (a forgery or a collision is taken to be impossible).           *)
(***************************************************************************)
\* bytes(SigningKey(seed).verify_key)
VerifyKeyOf(seed0) == [j \in 1..32 |-> ((seed0[j] * 7) + (13 * j)) % 256]

\* SigningKey(secret_key).sign(message).signature
Ed25519Sign(secret_key, message) ==
    [len |-> 64, key |-> VerifyKeyOf(secret_key), msg |-> message]

\* Fault variant of keypair_from_seed: only seeds shorter than 32 bytes are
\* refused
keypair_from_seed_m(seed0) ==
    IF Len(seed0) < 32 THEN Raise("seed must be exactly 32 bytes")
    ELSE [ok |-> TRUE, value |-> <<seed0, VerifyKeyOf(seed0)>>]

keypair_from_seed(seed0) ==
    IF Len(seed0) # 32 THEN Raise("seed must be exactly 32 bytes")
    ELSE [ok |-> TRUE, value |-> <<seed0, VerifyKeyOf(seed0)>>]

\* SigningKey(secret_key) raises for a key that is not 32 bytes
sign_message(secret_key, message) ==
    IF Len(secret_key) # 32 THEN Raise("nacl ValueError")
    ELSE [ok |-> TRUE, value |-> Ed25519Sign(secret_key, message)]

\* Fault variant of verify_signature: the message is not compared
verify_signature_m(public_key, message, signature) ==
    /\ Len(public_key) = 32
    /\ signature.len = 64
    /\ signature.key = public_key

\* try: VerifyKey(public_key).verify(message, signature); return True
\* except (BadSignatureError, Exception): return False
verify_signature(public_key, message, signature) ==
    /\ Len(public_key) = 32
    /\ signature.len = 64
    /\ signature.key = public_key
    /\ signature.msg = message

(***************************************************************************)
(***************************************************************************)
(* transaction.py: sign_transaction, verify_transaction                    *)
(***************************************************************************)
sign_transaction(t, secret_key) ==
    LET Signed(sig) ==
            IF ~sig.ok THEN sig
            ELSE [ok |-> TRUE,
                  value |-> [transaction |-> t,
                             signature |-> sig.value,
                             public_key |-> VerifyKeyOf(secret_key)]]
        Message(message) ==
            IF ~message.ok THEN message
            ELSE Signed(sign_message(secret_key, message.value))
    IN  IF Len(secret_key) # 32 THEN Raise("nacl ValueError")
        ELSE Message(signable_bytes(t))

verify_transaction(signed_tx) ==
    LET Sender(sender_pk) ==
            IF ~sender_pk.ok THEN sender_pk
            ELSE IF sender_pk.value # signed_tx.public_key
            THEN [ok |-> TRUE, value |-> FALSE]
            ELSE [ok |-> TRUE, value |-> TRUE]
        Message(message) ==
            IF ~message.ok THEN message
            ELSE IF ~verify_signature(signed_tx.public_key, message.value,
                                      signed_tx.signature)
            THEN [ok |-> TRUE, value |-> FALSE]
            ELSE Sender(parse_nova_id(signed_tx.transaction.sender))
    IN  Message(signable_bytes(signed_tx.transaction))

\* Transaction.model_copy(update={field: value}): no validation is run
model_copy(t, field, value) ==
    CASE field = "amount.value"    -> [t EXCEPT !.amount.value = value]
      [] field = "amount.currency" -> [t EXCEPT !.amount.currency = value]
      [] OTHER                     -> [t EXCEPT ![field] = value]

\* the value of a field of a Transaction
FieldOf(t, field) ==
    CASE field = "amount.value"    -> t.amount.value
      [] field = "amount.currency" -> t.amount.currency
      [] OTHER                     -> t[field]

(***************************************************************************)
(* Bounds and inputs                                                       *)
(***************************************************************************)
NumSeeds == 2

MaxLead == 5

NumKeySteps == 5

MaxCalls == 2

MaxNow == 1

\* the deterministic seeds of the tests: one leading byte, then zeros
SeedOf(i) == [j \in 1..32 |-> IF j = 1 THEN i ELSE 0]

Seeds == {SeedOf(i) : i \in 1..NumSeeds}

\* the address of seed i's verifying key (seed 0 is only ever a receiver)
AddressOf(i) == bech32_encode(_HRP, VerifyKeyOf(SeedOf(i)))

\* a well-formed bech32 string under "nova" whose payload is 20 bytes
ShortAddr == bech32_encode(_HRP, [i \in 1..20 |-> 0])

\* a well-formed bech32 string under another prefix ("btc")
BtcAddr == bech32_encode(<<98, 116, 99>>, [i \in 1..32 |-> 0])

\* an address with one character of the body replaced
BadChecksumAddr == [AddressOf(1) EXCEPT ![8] = IF @ = 113 THEN 112 ELSE 113]

\* an address with the first letter of the body in upper case
MixedCaseAddr ==
    LET First(a) == CHOOSE i \in 6..Len(a) :
                        /\ a[i] >= 97
                        /\ \A j \in 6..(i - 1) : a[j] < 97
        Raised(a) == [a EXCEPT ![First(a)] = UpperChar(@)]
    IN  Raised(AddressOf(1))

\* the hard-coded addresses of the cross-language vector (not valid bech32):
\* "nova1sender_test_vector", "nova1receiver_test_vector"
VectorSender ==
    <<110, 111, 118, 97, 49, 115, 101, 110, 100, 101, 114, 95, 116, 101, 115,
      116, 95, 118, 101, 99, 116, 111, 114>>

VectorReceiver ==
    <<110, 111, 118, 97, 49, 114, 101, 99, 101, 105, 118, 101, 114, 95, 116,
      101, 115, 116, 95, 118, 101, 99, 116, 111, 114>>

NOVA == <<78, 79, 86, 65>>

USD == <<85, 83, 68>>

Hello == <<104, 101, 108, 108, 111>>

\* 2^64 - 1 and 2^64 as Python ints
U64Max == FromLimbs(<<65535, 65535, 65535, 65535>>)

TwoTo64 == FromLimbs(<<0, 0, 0, 0, 1>>)

\* 1_700_000_000_000 = 395 * 2^32 + 53221 * 2^16 + 26624
VectorTimestamp == FromLimbs(<<26624, 53221, 395>>)

SenderInputs ==
    {AddressOf(i) : i \in 1..NumSeeds}
        \cup {Upper(AddressOf(1)), MixedCaseAddr, ShortAddr, BadChecksumAddr,
              BtcAddr}

\* the arguments of a Transaction(...) call
BaseFields(s, r) ==
    [version |-> FromInt(1), tx_type |-> "transfer", sender |-> s,
     receiver |-> r, value |-> FromInt(500000), currency |-> NOVA,
     fee |-> FromInt(50), nonce |-> FromInt(7),
     timestamp |-> FromInt(1700000000), payload |-> <<>>]

\* <<argument, value>>: the values an argument takes besides its base value
FieldInputs ==
    {<<"version", FromInt(2)>>, <<"version", FromInt(65535)>>,
     <<"version", FromInt(65536)>>, <<"version", FromInt(0)>>,
     <<"tx_type", "token_mint">>, <<"tx_type", "credit_settlement">>,
     <<"tx_type", "credit_request">>, <<"tx_type", "token_burn">>,
     <<"tx_type", "bogus">>,
     <<"value", FromInt(0)>>, <<"value", U64Max>>, <<"value", TwoTo64>>,
     <<"value", FromInt(-1)>>,
     <<"currency", Lower(NOVA)>>, <<"currency", USD>>, <<"currency", <<>>>>,
     <<"fee", FromInt(0)>>, <<"fee", TwoTo64>>, <<"fee", FromInt(-1)>>,
     <<"nonce", FromInt(0)>>, <<"nonce", TwoTo64>>,
     <<"timestamp", FromInt(0)>>, <<"timestamp", FromInt(-1)>>,
     <<"timestamp", VectorTimestamp>>, <<"timestamp", TwoTo64>>,
     <<"payload", Hello>>, <<"payload", <<0>>>>}

\* the argument lists the harness constructs Transactions from
Varied(base) == {base} \cup {[base EXCEPT ![fv[1]] = fv[2]] : fv \in FieldInputs}

ConstructInputs ==
    LET Over(senders, r) ==
            UNION {Varied(BaseFields(s, r)) : s \in senders}
                \cup {[BaseFields(s, r) EXCEPT !.receiver = s] : s \in senders}
    IN  Over(SenderInputs, AddressOf(0))

\* Transaction(version=..., type=..., ..., amount=Amount(value=..., currency=...))
Construct(f) ==
    Transaction(f.version, f.tx_type, f.sender, f.receiver,
                Amount(f.value, f.currency), f.fee, f.nonce, f.timestamp,
                f.payload)

\* <<field, value>>: the replacements model_copy(update=...) is given
TamperInputs ==
    {<<"version", FromInt(1)>>, <<"version", FromInt(2)>>,
     <<"version", FromInt(65536)>>,
     <<"tx_type", "transfer">>, <<"tx_type", "token_burn">>,
     <<"sender", VectorSender>>, <<"receiver", VectorReceiver>>,
     <<"amount.value", FromInt(500000)>>, <<"amount.value", FromInt(999999)>>,
     <<"amount.currency", NOVA>>, <<"amount.currency", USD>>,
     <<"fee", FromInt(50)>>, <<"fee", FromInt(51)>>,
     <<"nonce", FromInt(7)>>, <<"nonce", FromInt(8)>>,
     <<"timestamp", FromInt(1700000000)>>, <<"timestamp", FromInt(1700000001)>>,
     <<"timestamp", FromInt(-1)>>,
     <<"payload", <<>>>>, <<"payload", Hello>>, <<"payload", <<0>>>>}
        \cup {<<"sender", Upper(signed.value.transaction.sender)>>,
              <<"sender", signed.value.transaction.receiver>>,
              <<"receiver", signed.value.transaction.sender>>}

\* Transaction.model_construct(...) of the cross-language vector
TestVector ==
    [version |-> FromInt(1), tx_type |-> "transfer", sender |-> VectorSender,
     receiver |-> VectorReceiver,
     amount |-> [value |-> FromInt(1000000), currency |-> NOVA],
     fee |-> FromInt(100), nonce |-> FromInt(42),
     timestamp |-> VectorTimestamp, payload |-> <<>>]

(***************************************************************************)
(* Spec: construct a Transaction, sign it, verify it, replace one field of *)
(* a verified SignedTransaction and verify again.                          *)
(***************************************************************************)
CodecIdle == key = <<>> /\ addr = None /\ parsed = None

ProtocolIdle ==
    seed = <<>> /\ signed = None /\ verdict = None /\ tampered = "none"

EncodeIdle == now = 0 /\ calls = <<>>

BuilderIdle == builder = None

ClientIdle == clients = <<>>

Init ==
    /\ CodecIdle
    /\ EncodeIdle
    /\ BuilderIdle
    /\ ClientIdle
    /\ tx = None
    /\ seed \in Seeds
    /\ signed = None
    /\ verdict = None
    /\ tampered = "none"

ConstructTx ==
    /\ tx = None
    /\ \E f \in ConstructInputs : tx' = Construct(f)
    /\ UNCHANGED <<clients, builder, key, addr, parsed, seed, signed, verdict, tampered, now, calls>>

Sign ==
    /\ tx.ok
    /\ signed = None
    /\ signed' = sign_transaction(tx.value, seed)
    /\ UNCHANGED <<clients, builder, key, addr, parsed, tx, seed, verdict, tampered, now, calls>>

Verify ==
    /\ signed.ok
    /\ verdict = None
    /\ verdict' = verify_transaction(signed.value)
    /\ UNCHANGED <<clients, builder, key, addr, parsed, tx, seed, signed, tampered, now, calls>>

Tamper ==
    /\ signed.ok
    /\ verdict = [ok |-> TRUE, value |-> TRUE]
    /\ tampered = "none"
    /\ \E fv \in TamperInputs :
          /\ FieldOf(signed.value.transaction, fv[1]) # fv[2]
          /\ signed' = [signed EXCEPT
                           !.value.transaction = model_copy(@, fv[1], fv[2])]
          /\ tampered' = fv[1]
    /\ verdict' = None
    /\ UNCHANGED <<clients, builder, key, addr, parsed, tx, seed, now, calls>>

Next == ConstructTx \/ Sign \/ Verify \/ Tamper

Spec == Init /\ [][Next]_vars

(***************************************************************************)
(* SpecCodec: encode a key as an address, decode the address.              *)
(***************************************************************************)
\* 32-byte keys: byte j is a lead value plus j times a step, modulo 256
KeyOf(lead, step) == [j \in 1..32 |-> ((lead * 51) + (j * step * 37)) % 256]

Keys ==
    {KeyOf(lead, step) : lead \in 0..MaxLead, step \in 0..NumKeySteps}
        \cup {SubSeq(KeyOf(1, 1), 1, 31), KeyOf(1, 1) \o <<0>>}

InitCodec ==
    /\ key \in Keys
    /\ addr = None
    /\ parsed = None
    /\ tx = None
    /\ ProtocolIdle
    /\ EncodeIdle
    /\ BuilderIdle
    /\ ClientIdle

CreateNovaId ==
    /\ addr = None
    /\ addr' = create_nova_id(key)
    /\ UNCHANGED <<clients, builder, key, parsed, tx, seed, signed, verdict, tampered, now, calls>>

ParseNovaId ==
    /\ addr.ok
    /\ parsed = None
    /\ parsed' = parse_nova_id(addr.value)
    /\ UNCHANGED <<clients, builder, key, addr, tx, seed, signed, verdict, tampered, now, calls>>

NextCodec == CreateNovaId \/ ParseNovaId

SpecCodec == InitCodec /\ [][NextCodec]_vars

(***************************************************************************)
(* SpecEncode: calls of signable_bytes and compute_transaction_id on a     *)
(* Transaction, at different times.                                        *)
(***************************************************************************)
\* validated Transactions, and the vector built with model_construct
EncodeInputs ==
    {c \in {Construct(f) : f \in Varied(BaseFields(AddressOf(1), AddressOf(0)))} :
        c.ok}
        \cup {[ok |-> TRUE, value |-> TestVector]}

InitEncode ==
    /\ tx \in EncodeInputs
    /\ CodecIdle
    /\ ProtocolIdle
    /\ EncodeIdle
    /\ BuilderIdle
    /\ ClientIdle

CallSignableBytes ==
    /\ Len(calls) < MaxCalls
    /\ calls' = Append(calls, [op |-> "signable_bytes", at |-> now,
                               tx |-> tx.value,
                               out |-> signable_bytes(tx.value)])
    /\ UNCHANGED <<clients, builder, key, addr, parsed, tx, seed, signed, verdict, tampered, now>>

CallComputeId ==
    /\ Len(calls) < MaxCalls
    /\ calls' = Append(calls, [op |-> "compute_transaction_id", at |-> now,
                               tx |-> tx.value,
                               out |-> compute_transaction_id(tx.value)])
    /\ UNCHANGED <<clients, builder, key, addr, parsed, tx, seed, signed, verdict, tampered, now>>

\* time passes between calls
Tick ==
    /\ now < MaxNow
    /\ now' = now + 1
    /\ UNCHANGED <<clients, builder, key, addr, parsed, tx, seed, signed, verdict, tampered, calls>>

NextEncode == CallSignableBytes \/ CallComputeId \/ Tick

SpecEncode == InitEncode /\ [][NextEncode]_vars

(***************************************************************************)
(* SpecIdentity: calls of create_nova_id, keypair_from_seed and             *)
(* verify_signature on a byte string, or of bech32_decode and parse_nova_id *)
(* on an address string.  A call record is [op, arg, out].                  *)
(***************************************************************************)
\* hrp + "1" + the characters of 5-bit values and of their checksum
EncodeValues(hrp, values) ==
    LET Chars(combined) ==
            [i \in 1..Len(combined) |-> _BECH32_CHARSET[combined[i] + 1]]
    IN  hrp \o <<49>> \o Chars(values \o _bech32_create_checksum(hrp, values))

\* an address and what becomes of it when it is cut or one character changes
Damaged(a) ==
    {a, Upper(a), <<>>, a \o <<49>>,
     SubSeq(a, 6, Len(a)), SubSeq(a, 5, Len(a)),
     SubSeq(a, 1, 10), SubSeq(a, 1, 11),
     [a EXCEPT ![8] = 98],
     [a EXCEPT ![Len(a)] = IF @ = 113 THEN 112 ELSE 113]}

\* strings with a valid checksum over the 5-bit values v of a 32-byte key:
\* a set padding bit, one more value, no value, one and three values, no
\* prefix, and a prefix with a "1" in it
Regrouped(v) ==
    {EncodeValues(_HRP, [v EXCEPT ![Len(v)] = @ + 1]),
     EncodeValues(_HRP, v \o <<0>>),
     EncodeValues(_HRP, <<>>),
     EncodeValues(_HRP, <<0>>),
     EncodeValues(_HRP, <<0, 0, 0>>),
     EncodeValues(<<>>, v),
     EncodeValues(<<110, 49, 97>>, v)}

AddressInputs ==
    Damaged(AddressOf(1))
        \cup Regrouped(_convertbits(KeyOf(1, 1), 8, 5, TRUE).ret)
        \cup {MixedCaseAddr, BadChecksumAddr, ShortAddr, BtcAddr,
              bech32_encode(<<98, 116, 99>>, [i \in 1..20 |-> 0])}

\* byte strings of 0, 16, 31, 32 and 33 bytes
BytesInputs ==
    LET Cut(k) == {k, SubSeq(k, 1, 16), SubSeq(k, 1, 31), k \o <<0>>}
    IN  Cut(KeyOf(1, 1)) \cup {KeyOf(0, 0), SeedOf(1), <<>>}

\* (public_key, message, signature) for a signature of "hello" under seed0:
\* as signed, another message, another key, a short key, no key, a short
\* signature
VerifyInputs(seed0) ==
    LET Variants(pk, sig) ==
            {[public_key |-> pk, message |-> Hello, signature |-> sig],
             [public_key |-> pk, message |-> NOVA, signature |-> sig],
             [public_key |-> VerifyKeyOf(SeedOf(2)), message |-> Hello,
              signature |-> sig],
             [public_key |-> SubSeq(pk, 1, 31), message |-> Hello,
              signature |-> sig],
             [public_key |-> <<>>, message |-> Hello, signature |-> sig],
             [public_key |-> pk, message |-> Hello,
              signature |-> [sig EXCEPT !.len = 63]]}
    IN  Variants(VerifyKeyOf(seed0), sign_message(seed0, Hello).value)

InitIdentity ==
    /\ \/ key \in BytesInputs /\ addr = None
       \/ key = <<>> /\ addr \in {[ok |-> TRUE, value |-> s] : s \in AddressInputs}
    /\ parsed = None
    /\ tx = None
    /\ ProtocolIdle
    /\ EncodeIdle
    /\ BuilderIdle
    /\ ClientIdle

CallBech32Decode ==
    /\ addr.ok
    /\ Len(calls) < MaxCalls
    /\ calls' = Append(calls, [op |-> "bech32_decode", arg |-> addr.value,
                               out |-> bech32_decode(addr.value)])
    /\ UNCHANGED <<clients, builder, key, addr, parsed, tx, seed, signed, verdict, tampered, now>>

CallParseNovaId ==
    /\ addr.ok
    /\ Len(calls) < MaxCalls
    /\ calls' = Append(calls, [op |-> "parse_nova_id", arg |-> addr.value,
                               out |-> parse_nova_id(addr.value)])
    /\ UNCHANGED <<clients, builder, key, addr, parsed, tx, seed, signed, verdict, tampered, now>>

CallCreateNovaId ==
    /\ addr = None
    /\ Len(calls) < MaxCalls
    /\ calls' = Append(calls, [op |-> "create_nova_id", arg |-> key,
                               out |-> create_nova_id(key)])
    /\ UNCHANGED <<clients, builder, key, addr, parsed, tx, seed, signed, verdict, tampered, now>>

CallKeypairFromSeed ==
    /\ addr = None
    /\ Len(calls) < MaxCalls
    /\ calls' = Append(calls, [op |-> "keypair_from_seed", arg |-> key,
                               out |-> keypair_from_seed(key)])
    /\ UNCHANGED <<clients, builder, key, addr, parsed, tx, seed, signed, verdict, tampered, now>>

\* the try block spans the whole body and the except clause catches
\* Exception: every path of verify_signature returns a bool
CallVerifySignature ==
    /\ addr = None
    /\ Len(key) = 32
    /\ Len(calls) < MaxCalls
    /\ \E a \in VerifyInputs(key) :
          calls' = Append(calls,
                          [op |-> "verify_signature", arg |-> a,
                           out |-> [ok |-> TRUE,
                                    value |-> verify_signature(a.public_key,
                                                               a.message,
                                                               a.signature)]])
    /\ UNCHANGED <<clients, builder, key, addr, parsed, tx, seed, signed, verdict, tampered, now>>

NextIdentity ==
    \/ CallBech32Decode
    \/ CallParseNovaId
    \/ CallCreateNovaId
    \/ CallKeypairFromSeed
    \/ CallVerifySignature

SpecIdentity == InitIdentity /\ [][NextIdentity]_vars

(***************************************************************************)
(* SpecAssign: assignments to the fields of a constructed Transaction.     *)
(* Transaction is configured with populate_by_name only: it is neither     *)
(* frozen nor validated on assignment, so `tx.<field> = value` stores the  *)
(* value.  Amount is frozen: `tx.amount.<field> = value` raises and stores *)
(* nothing.                                                                *)
(***************************************************************************)
\* the outcome of `t.<field> = value`
Transaction_setattr(t, field, value) ==
    IF field \in {"amount.value", "amount.currency"}
    THEN Raise("frozen_instance")
    ELSE [ok |-> TRUE, value |-> [t EXCEPT ![field] = value]]

\* <<field, value>>: the assignments the harness attempts
AssignInputs ==
    {<<"version", FromInt(2)>>, <<"tx_type", "token_burn">>,
     <<"sender", VectorSender>>, <<"receiver", VectorReceiver>>,
     <<"amount", [value |-> FromInt(999999), currency |-> NOVA]>>,
     <<"amount.value", FromInt(999999)>>, <<"amount.currency", USD>>,
     <<"fee", FromInt(51)>>, <<"nonce", FromInt(8)>>,
     <<"timestamp", FromInt(-1)>>, <<"payload", Hello>>}

InitAssign ==
    /\ tx \in EncodeInputs
    /\ CodecIdle
    /\ ProtocolIdle
    /\ EncodeIdle
    /\ BuilderIdle
    /\ ClientIdle

\* tx.<field> = value; the record keeps the object before and after
AssignField ==
    /\ tx.ok
    /\ Len(calls) < MaxCalls
    /\ \E fv \in AssignInputs :
          /\ FieldOf(tx.value, fv[1]) # fv[2]
          /\ tx' = IF Transaction_setattr(tx.value, fv[1], fv[2]).ok
                   THEN Transaction_setattr(tx.value, fv[1], fv[2])
                   ELSE tx
          /\ calls' = Append(calls,
                             [op |-> "setattr", field |-> fv[1],
                              before |-> tx.value, after |-> tx'.value,
                              out |-> Transaction_setattr(tx.value, fv[1],
                                                          fv[2]).ok])
    /\ UNCHANGED <<clients, builder, key, addr, parsed, seed, signed, verdict, tampered, now>>

NextAssign == AssignField

SpecAssign == InitAssign /\ [][NextAssign]_vars

(***************************************************************************)
(* SpecBuild: a TransactionBuilder, its fluent methods and build().        *)
(* A private field that may be None is [set |-> FALSE] or                  *)
(* [set |-> TRUE, value |-> v].  The methods are chained in the order of   *)
(* the class (each writes its own field only) and each call is recorded in *)
(* calls as [op, arg].                                                     *)
(***************************************************************************)
Unset == [set |-> FALSE]

IsSet(v) == [set |-> TRUE, value |-> v]

\* TransactionBuilder.__init__
TransactionBuilder_init ==
    [_version |-> FromInt(1), _tx_type |-> Unset, _sender |-> Unset,
     _receiver |-> Unset, _amount_value |-> Unset, _amount_currency |-> Unset,
     _fee |-> FromInt(0), _nonce |-> Unset, _payload |-> <<>>,
     _timestamp |-> Unset]

\* the names build() collects in `missing`, in its order
MissingFields(b) ==
    (IF ~b._tx_type.set THEN <<"type">> ELSE <<>>)
        \o (IF ~b._sender.set THEN <<"sender">> ELSE <<>>)
        \o (IF ~b._receiver.set THEN <<"receiver">> ELSE <<>>)
        \o (IF ~b._amount_value.set \/ ~b._amount_currency.set
            THEN <<"amount">> ELSE <<>>)
        \o (IF ~b._nonce.set THEN <<"nonce">> ELSE <<>>)

\* ValueError(f"missing required fields: {', '.join(missing)}")
RaiseMissing(missing) ==
    [ok |-> FALSE, err |-> "missing required fields", missing |-> missing]

\* Fault variant of build: only the first missing field is reported
TransactionBuilder_build_m(b, clock) ==
    IF MissingFields(b) # <<>>
    THEN RaiseMissing(<<Head(MissingFields(b))>>)
    ELSE Transaction(b._version, b._tx_type.value, b._sender.value,
                     b._receiver.value,
                     Amount(b._amount_value.value, b._amount_currency.value),
                     b._fee, b._nonce.value,
                     IF b._timestamp.set THEN b._timestamp.value
                     ELSE FromInt(clock),
                     b._payload)

\* TransactionBuilder.build; clock is int(time.time())
TransactionBuilder_build(b, clock) ==
    IF MissingFields(b) # <<>>
    THEN RaiseMissing(MissingFields(b))
    ELSE Transaction(b._version, b._tx_type.value, b._sender.value,
                     b._receiver.value,
                     Amount(b._amount_value.value, b._amount_currency.value),
                     b._fee, b._nonce.value,
                     IF b._timestamp.set THEN b._timestamp.value
                     ELSE FromInt(clock),
                     b._payload)

\* the methods in the order of the class
BuilderMethods ==
    <<"version", "type", "sender", "receiver", "amount", "fee", "nonce",
      "payload", "timestamp", "build">>

MethodIndex(m) == CHOOSE i \in 1..Len(BuilderMethods) : BuilderMethods[i] = m

\* m comes next in the chain: a builder is in hand, nothing is built yet
\* and the methods called so far come before m
CanChain(m) ==
    /\ builder # None
    /\ tx = None
    /\ \A i \in 1..Len(calls) : MethodIndex(calls[i].op) < MethodIndex(m)

InitBuild ==
    /\ CodecIdle
    /\ ProtocolIdle
    /\ tx = None
    /\ now \in 0..MaxNow
    /\ calls = <<>>
    /\ BuilderIdle
    /\ ClientIdle

Builder_new ==
    /\ builder = None
    /\ builder' = TransactionBuilder_init
    /\ UNCHANGED <<clients, key, addr, parsed, tx, seed, signed, verdict, tampered, now,
                   calls>>

Builder_version ==
    /\ CanChain("version")
    /\ builder' = [builder EXCEPT !._version = FromInt(2)]
    /\ calls' = Append(calls, [op |-> "version", arg |-> FromInt(2)])
    /\ UNCHANGED <<clients, key, addr, parsed, tx, seed, signed, verdict, tampered, now>>

Builder_type ==
    /\ CanChain("type")
    /\ \E t \in {"transfer", "token_mint"} :
          /\ builder' = [builder EXCEPT !._tx_type = IsSet(t)]
          /\ calls' = Append(calls, [op |-> "type", arg |-> t])
    /\ UNCHANGED <<clients, key, addr, parsed, tx, seed, signed, verdict, tampered, now>>

Builder_sender ==
    /\ CanChain("sender")
    /\ \E a \in {AddressOf(1), BtcAddr} :
          /\ builder' = [builder EXCEPT !._sender = IsSet(a)]
          /\ calls' = Append(calls, [op |-> "sender", arg |-> a])
    /\ UNCHANGED <<clients, key, addr, parsed, tx, seed, signed, verdict, tampered, now>>

Builder_receiver ==
    /\ CanChain("receiver")
    /\ builder' = [builder EXCEPT !._receiver = IsSet(AddressOf(0))]
    /\ calls' = Append(calls, [op |-> "receiver", arg |-> AddressOf(0)])
    /\ UNCHANGED <<clients, key, addr, parsed, tx, seed, signed, verdict, tampered, now>>

Builder_amount ==
    /\ CanChain("amount")
    /\ \E v \in {FromInt(100), FromInt(-1)} :
          /\ builder' = [builder EXCEPT !._amount_value = IsSet(v),
                                        !._amount_currency = IsSet(NOVA)]
          /\ calls' = Append(calls, [op |-> "amount", arg |-> <<v, NOVA>>])
    /\ UNCHANGED <<clients, key, addr, parsed, tx, seed, signed, verdict, tampered, now>>

Builder_fee ==
    /\ CanChain("fee")
    /\ builder' = [builder EXCEPT !._fee = FromInt(50)]
    /\ calls' = Append(calls, [op |-> "fee", arg |-> FromInt(50)])
    /\ UNCHANGED <<clients, key, addr, parsed, tx, seed, signed, verdict, tampered, now>>

Builder_nonce ==
    /\ CanChain("nonce")
    /\ builder' = [builder EXCEPT !._nonce = IsSet(FromInt(7))]
    /\ calls' = Append(calls, [op |-> "nonce", arg |-> FromInt(7)])
    /\ UNCHANGED <<clients, key, addr, parsed, tx, seed, signed, verdict, tampered, now>>

Builder_payload ==
    /\ CanChain("payload")
    /\ builder' = [builder EXCEPT !._payload = Hello]
    /\ calls' = Append(calls, [op |-> "payload", arg |-> Hello])
    /\ UNCHANGED <<clients, key, addr, parsed, tx, seed, signed, verdict, tampered, now>>

Builder_timestamp ==
    /\ CanChain("timestamp")
    /\ builder' = [builder EXCEPT !._timestamp = IsSet(FromInt(1700000000))]
    /\ calls' = Append(calls, [op |-> "timestamp", arg |-> FromInt(1700000000)])
    /\ UNCHANGED <<clients, key, addr, parsed, tx, seed, signed, verdict, tampered, now>>

Builder_build ==
    /\ CanChain("build")
    /\ tx' = TransactionBuilder_build(builder, now)
    /\ UNCHANGED <<clients, builder, key, addr, parsed, seed, signed, verdict, tampered, now,
                   calls>>

NextBuild ==
    \/ Builder_new
    \/ Builder_version
    \/ Builder_type
    \/ Builder_sender
    \/ Builder_receiver
    \/ Builder_amount
    \/ Builder_fee
    \/ Builder_nonce
    \/ Builder_payload
    \/ Builder_timestamp
    \/ Builder_build

SpecBuild == InitBuild /\ [][NextBuild]_vars

(***************************************************************************)
(* SpecValidate: Transaction(...) called on addresses in either case and   *)
(* on currencies with and without a NUL, then signable_bytes on the        *)
(* Transaction when it validated.  calls[1] records the arguments given.   *)
(***************************************************************************)
\* a 3-character currency code whose second character is U+0000
NulCurrency == <<85, 0, 83>>

\* the argument lists: every sender input, the receiver in lower and in
\* upper case, four currencies, two variants
ValidateInputs ==
    {[BaseFields(s, r) EXCEPT !.currency = c, !.tx_type = t] :
        s \in SenderInputs, r \in {AddressOf(0), Upper(AddressOf(0))},
        c \in {NOVA, Lower(NOVA), USD, NulCurrency},
        t \in {"transfer", "token_burn"}}

InitValidate ==
    /\ tx = None
    /\ CodecIdle
    /\ ProtocolIdle
    /\ EncodeIdle
    /\ BuilderIdle
    /\ ClientIdle

Validate ==
    /\ tx = None
    /\ \E f \in ValidateInputs :
          /\ tx' = Construct(f)
          /\ calls' = <<[op |-> "Transaction", arg |-> f, out |-> tx']>>
    /\ UNCHANGED <<clients, builder, key, addr, parsed, seed, signed, verdict, tampered, now>>

EncodeValidated ==
    /\ tx.ok
    /\ Len(calls) = 1
    /\ calls' = Append(calls, [op |-> "signable_bytes", arg |-> tx.value,
                               out |-> signable_bytes(tx.value)])
    /\ UNCHANGED <<clients, builder, key, addr, parsed, tx, seed, signed, verdict, tampered, now>>

NextValidate == Validate \/ EncodeValidated

SpecValidate == InitValidate /\ [][NextValidate]_vars

(***************************************************************************)
(* SpecChain: a TransactionBuilder whose setters are called in any order   *)
(* and any number of times, then build() up to twice while the clock runs. *)
(* calls[1] records the builder the chain starts from; a setter call is    *)
(* recorded as [op, arg], a build() call as [op, at, out].                 *)
(***************************************************************************)
SetterNames ==
    {"version", "type", "sender", "receiver", "amount", "fee", "nonce",
     "payload", "timestamp"}

\* Fault variant of the setters: fee() writes _nonce
Setter_m(b, m, v) ==
    CASE m = "version"   -> [b EXCEPT !._version = v]
      [] m = "type"      -> [b EXCEPT !._tx_type = IsSet(v)]
      [] m = "sender"    -> [b EXCEPT !._sender = IsSet(v)]
      [] m = "receiver"  -> [b EXCEPT !._receiver = IsSet(v)]
      [] m = "amount"    -> [b EXCEPT !._amount_value = IsSet(v[1]),
                                      !._amount_currency = IsSet(v[2])]
      [] m = "fee"       -> [b EXCEPT !._nonce = IsSet(v)]
      [] m = "nonce"     -> [b EXCEPT !._nonce = IsSet(v)]
      [] m = "payload"   -> [b EXCEPT !._payload = v]
      [] m = "timestamp" -> [b EXCEPT !._timestamp = IsSet(v)]

\* the builder after b.<m>(v): the assignment in the body of setter m (each
\* returns self)
Setter(b, m, v) ==
    CASE m = "version"   -> [b EXCEPT !._version = v]
      [] m = "type"      -> [b EXCEPT !._tx_type = IsSet(v)]
      [] m = "sender"    -> [b EXCEPT !._sender = IsSet(v)]
      [] m = "receiver"  -> [b EXCEPT !._receiver = IsSet(v)]
      [] m = "amount"    -> [b EXCEPT !._amount_value = IsSet(v[1]),
                                      !._amount_currency = IsSet(v[2])]
      [] m = "fee"       -> [b EXCEPT !._fee = v]
      [] m = "nonce"     -> [b EXCEPT !._nonce = IsSet(v)]
      [] m = "payload"   -> [b EXCEPT !._payload = v]
      [] m = "timestamp" -> [b EXCEPT !._timestamp = IsSet(v)]

\* the arguments the harness passes to setter m
SetterInputs(m) ==
    CASE m = "version"   -> {FromInt(2)}
      [] m = "type"      -> {"transfer", "token_mint"}
      [] m = "sender"    -> {AddressOf(1)}
      [] m = "receiver"  -> {AddressOf(0)}
      [] m = "amount"    -> {<<FromInt(100), NOVA>>, <<FromInt(250), USD>>}
      [] m = "fee"       -> {FromInt(50)}
      [] m = "nonce"     -> {FromInt(7)}
      [] m = "payload"   -> {Hello}
      [] m = "timestamp" -> {FromInt(1700000000), FromInt(1700000001)}

\* a builder with every required field set:
\* TransactionBuilder().type(...).sender(...).receiver(...).amount(...).nonce(...)
CompleteBuilder ==
    [TransactionBuilder_init EXCEPT
        !._tx_type = IsSet("transfer"), !._sender = IsSet(AddressOf(1)),
        !._receiver = IsSet(AddressOf(0)), !._amount_value = IsSet(FromInt(100)),
        !._amount_currency = IsSet(NOVA), !._nonce = IsSet(FromInt(7))]

\* the number of build() calls recorded
Builds == Cardinality({i \in 1..Len(calls) : calls[i].op = "build"})

InitChain ==
    /\ builder \in {TransactionBuilder_init, CompleteBuilder}
    /\ calls = <<[op |-> "start", arg |-> builder]>>
    /\ tx = None
    /\ now = 0
    /\ CodecIdle
    /\ ProtocolIdle
    /\ ClientIdle

ChainSet ==
    /\ Builds = 0
    /\ Len(calls) <= MaxCalls
    /\ \E m \in SetterNames :
          \E v \in SetterInputs(m) :
              /\ builder' = Setter(builder, m, v)
              /\ calls' = Append(calls, [op |-> m, arg |-> v])
    /\ UNCHANGED <<clients, key, addr, parsed, tx, seed, signed, verdict, tampered, now>>

ChainBuild ==
    /\ Builds < 2
    /\ tx' = TransactionBuilder_build(builder, now)
    /\ calls' = Append(calls, [op |-> "build", at |-> now, out |-> tx'])
    /\ UNCHANGED <<clients, builder, key, addr, parsed, seed, signed, verdict, tampered, now>>

\* time passes between the two build() calls
ChainTick ==
    /\ Builds = 1
    /\ now < MaxNow
    /\ now' = now + 1
    /\ UNCHANGED <<clients, builder, key, addr, parsed, tx, seed, signed, verdict, tampered, calls>>

NextChain == ChainSet \/ ChainBuild \/ ChainTick

SpecChain == InitChain /\ [][NextChain]_vars

(***************************************************************************)
(* client.py: NovaClient.  The private field _client is "None", "open" or  *)
(* "closed" (an httpx.AsyncClient and its is_closed); within tells whether *)
(* the caller is inside an `async with` block on the object.  A reply is   *)
(* what the transport gives one request: a response or an httpx exception. *)
(***************************************************************************)
\* the default of the `retries` argument of NovaClient.__init__
DefaultRetries == 3

\* NovaClient.__init__
NovaClient_init(retries) ==
    [_retries |-> retries, _request_id |-> 0, _client |-> "None",
     within |-> FALSE]

\* Fault variant of _ensure_client: a closed client is handed out again
_ensure_client_m(self) ==
    IF self._client = "None" THEN [self EXCEPT !._client = "open"] ELSE self

\* NovaClient._ensure_client: the object afterwards (self._client is the
\* client returned)
_ensure_client(self) ==
    IF self._client = "None" \/ self._client = "closed"
    THEN [self EXCEPT !._client = "open"]
    ELSE self

\* NovaClient.close
close(self) ==
    IF self._client # "None" /\ self._client # "closed"
    THEN [self EXCEPT !._client = "closed"]
    ELSE self

\* Fault variant of _next_id: the incremented value is returned, not stored
_next_id_m(self) == [self |-> self, value |-> self._request_id + 1]

\* NovaClient._next_id: the object afterwards and the value returned
_next_id(self) ==
    [self |-> [self EXCEPT !._request_id = @ + 1],
     value |-> self._request_id + 1]

Response(status_code, error) ==
    [kind |-> "response", status_code |-> status_code, error |-> error]

Raises(exc) == [kind |-> "raise", exc |-> exc]

\* NovaClientError and its subclasses
NovaClientErrors ==
    {"NovaClientError", "NovaConnectionError", "NovaNotFoundError",
     "NovaRpcError"}

\* httpx.HTTPError and the subclasses the transport raises
HTTPErrors ==
    {"HTTPError", "ConnectError", "TimeoutException", "ReadError",
     "HTTPStatusError"}

\* the try/except of _get and _rpc_call around the request
Transient(reply) ==
    IF reply.exc = "ConnectError" \/ reply.exc = "TimeoutException"
    THEN Raise("NovaConnectionError")
    ELSE Raise(reply.exc)

\* NovaClient._get, given the reply to client.get(path)
_get(reply) ==
    IF reply.kind = "response" THEN [ok |-> TRUE, value |-> reply]
    ELSE Transient(reply)

\* NovaClient._rpc_call, given the reply to client.post("/rpc", ...)
_rpc_call(reply) ==
    IF reply.kind = "raise" THEN Transient(reply)
    ELSE IF reply.status_code >= 400 THEN Raise("HTTPStatusError")
    ELSE IF reply.error THEN Raise("NovaRpcError")
    ELSE [ok |-> TRUE, value |-> "result"]

\* Fault variant of health: only NovaClientError is caught
health_m(reply) ==
    LET Caught(resp) ==
            IF resp.ok THEN [ok |-> TRUE, value |-> resp.value.status_code = 200]
            ELSE IF resp.err \in NovaClientErrors
            THEN [ok |-> TRUE, value |-> FALSE]
            ELSE resp
    IN  Caught(_get(reply))

\* NovaClient.health, given the reply to GET /health
health(reply) ==
    LET Caught(resp) ==
            IF resp.ok THEN [ok |-> TRUE, value |-> resp.value.status_code = 200]
            ELSE IF resp.err \in NovaClientErrors \cup HTTPErrors
            THEN [ok |-> TRUE, value |-> FALSE]
            ELSE resp
    IN  Caught(_get(reply))

(***************************************************************************)
(* SpecClient: two NovaClient objects and requests that stay in flight     *)
(* until the transport replies.  Client "a" is opened, closed and used for *)
(* both kinds of request; client "b" only makes JSON-RPC calls alongside.  *)
(* A request is recorded                                                   *)
(* in calls when it is sent: the client, the JSON-RPC id (0 for a GET),    *)
(* _client before the call and when the request went out, the replies the  *)
(* transport gave to it and the outcome (None while in flight).            *)
(***************************************************************************)
ClientNames == {"a", "b"}

GetReplies ==
    {Response(200, FALSE), Response(404, FALSE), Response(500, FALSE),
     Raises("ConnectError"), Raises("TimeoutException"), Raises("ReadError")}

RpcReplies ==
    {Response(200, FALSE), Response(200, TRUE), Response(500, FALSE),
     Raises("ConnectError"), Raises("TimeoutException")}

\* NovaClient(url) and NovaClient(url, retries=5)
InitClient ==
    /\ clients = [c \in ClientNames |->
                     NovaClient_init(IF c = "a" THEN DefaultRetries ELSE 5)]
    /\ calls = <<>>
    /\ now = 0
    /\ tx = None
    /\ CodecIdle
    /\ ProtocolIdle
    /\ BuilderIdle

\* async with client: __aenter__
AEnter(c) ==
    /\ ~clients[c].within
    /\ clients' = [clients EXCEPT ![c] = [_ensure_client(@) EXCEPT !.within = TRUE]]
    /\ UNCHANGED <<builder, key, addr, parsed, tx, seed, signed, verdict, tampered, now, calls>>

\* leaving the async with block: __aexit__
AExit(c) ==
    /\ clients[c].within
    /\ clients' = [clients EXCEPT ![c] = [close(@) EXCEPT !.within = FALSE]]
    /\ UNCHANGED <<builder, key, addr, parsed, tx, seed, signed, verdict, tampered, now, calls>>

\* await client.close()
Close(c) ==
    /\ clients' = [clients EXCEPT ![c] = close(@)]
    /\ UNCHANGED <<builder, key, addr, parsed, tx, seed, signed, verdict, tampered, now, calls>>

\* _rpc_call up to its await of client.post: _ensure_client, _next_id, send
RpcSend(c) ==
    /\ Len(calls) < MaxCalls
    /\ clients' = [clients EXCEPT ![c] = _next_id(_ensure_client(@)).self]
    /\ calls' = Append(calls,
                       [op |-> "_rpc_call", client |-> c,
                        id |-> _next_id(_ensure_client(clients[c])).value,
                        before |-> clients[c]._client,
                        on |-> _ensure_client(clients[c])._client,
                        replies |-> <<>>, out |-> None])
    /\ UNCHANGED <<builder, key, addr, parsed, tx, seed, signed, verdict, tampered, now>>

\* health up to the await of client.get in _get: _ensure_client, send
HealthSend(c) ==
    /\ Len(calls) < MaxCalls
    /\ clients' = [clients EXCEPT ![c] = _ensure_client(@)]
    /\ calls' = Append(calls,
                       [op |-> "health", client |-> c, id |-> 0,
                        before |-> clients[c]._client,
                        on |-> _ensure_client(clients[c])._client,
                        replies |-> <<>>, out |-> None])
    /\ UNCHANGED <<builder, key, addr, parsed, tx, seed, signed, verdict, tampered, now>>

\* the transport replies to request i and the call returns or raises
RpcReturn(i) ==
    /\ calls[i].op = "_rpc_call"
    /\ calls[i].replies = <<>>
    /\ \E reply \in RpcReplies :
          calls' = [calls EXCEPT ![i].replies = <<reply>>,
                                 ![i].out = _rpc_call(reply)]
    /\ UNCHANGED <<clients, builder, key, addr, parsed, tx, seed, signed, verdict, tampered, now>>

HealthReturn(i) ==
    /\ calls[i].op = "health"
    /\ calls[i].replies = <<>>
    /\ \E reply \in GetReplies :
          calls' = [calls EXCEPT ![i].replies = <<reply>>,
                                 ![i].out = health(reply)]
    /\ UNCHANGED <<clients, builder, key, addr, parsed, tx, seed, signed, verdict, tampered, now>>

NextClient ==
    \/ AEnter("a") \/ AExit("a") \/ Close("a") \/ HealthSend("a")
    \/ \E c \in ClientNames : RpcSend(c)
    \/ \E i \in 1..Len(calls) : RpcReturn(i) \/ HealthReturn(i)

SpecClient == InitClient /\ [][NextClient]_vars

(***************************************************************************)
(* Properties                                                              *)
(***************************************************************************)
ReturnsTrue == [ok |-> TRUE, value |-> TRUE]

ReturnsFalse == [ok |-> TRUE, value |-> FALSE]

\* the address derived from the seed in use: create_nova_id(pk)
SeedAddress == create_nova_id(VerifyKeyOf(seed)).value

\* C1 (as stated): sign-then-verify.  For a validated Transaction and a
\* 32-byte seed whose derived address equals tx.sender, sign_transaction
\* returns a SignedTransaction and verify_transaction returns True on it.
C1_SignThenVerify ==
    (tx.ok /\ SeedAddress = tx.value.sender /\ tampered = "none")
        => /\ signed # None => signed.ok
           /\ verdict # None => verdict = ReturnsTrue

\* C2 (as stated): tamper detection.  After one field of the transaction of
\* a SignedTransaction that verified True is replaced by a different value
\* (signature and public key kept), verify_transaction returns False.
C2_TamperDetected ==
    (tampered # "none" /\ verdict # None) => verdict = ReturnsFalse

\* C3 (as stated): signer binding.  For a validated Transaction and a seed
\* whose derived address differs from tx.sender, sign_transaction succeeds
\* and verify_transaction returns False on the result.
C3_SignerBinding ==
    (tx.ok /\ SeedAddress # tx.value.sender /\ signed # None)
        => /\ signed.ok
           /\ (tampered = "none" /\ verdict # None) => verdict = ReturnsFalse

\* C4: address round trip.  For every 32-byte key k, create_nova_id(k)
\* returns an address and parse_nova_id of that address returns k.
C4_RoundTrip ==
    Len(key) = 32
        => /\ addr # None => addr.ok
           /\ parsed # None => parsed = [ok |-> TRUE, value |-> key]

\* C4 witness: a 32-byte key whose bytes are not all equal has been encoded
\* and its address decoded.
C4_Witness ==
    /\ Len(key) = 32
    /\ \E j \in 2..32 : key[j] # key[1]
    /\ addr.ok
    /\ parsed.ok

\* C5 (as stated): verify_transaction never raises.  On a SignedTransaction
\* whose fields all passed model validation (none was replaced afterwards)
\* it returns True or False.
C5_VerifyNeverRaises ==
    (tampered = "none" /\ verdict # None) => verdict.ok

\* index of the first 0x00 of b at or after position from; Len(b) + 1 if none
ZeroAt(b, from) ==
    LET hits == {k \in from..Len(b) : b[k] = 0}
    IN  IF hits = {} THEN Len(b) + 1
        ELSE CHOOSE k \in hits : \A j \in hits : k <= j

RECURSIVE StripZeroLimbs(_)
StripZeroLimbs(m) ==
    IF m = <<>> \/ m[Len(m)] # 0 THEN m
    ELSE StripZeroLimbs(SubSeq(m, 1, Len(m) - 1))

\* the unsigned integer an even number of little-endian bytes stands for
LittleEndian(bytes) ==
    [neg |-> FALSE,
     mag |-> StripZeroLimbs([k \in 1..(Len(bytes) \div 2) |->
                                bytes[(2 * k) - 1] + (256 * bytes[2 * k])])]

RECURSIVE PascalFrom(_, _, _)
PascalFrom(token, i, up) ==
    IF i > Len(token) THEN <<>>
    ELSE IF token[i] = 95 THEN PascalFrom(token, i + 1, TRUE)
    ELSE <<IF up THEN UpperChar(token[i]) ELSE token[i]>>
             \o PascalFrom(token, i + 1, FALSE)

\* snake_case to PascalCase: credit_request -> CreditRequest
PascalCase(token) == PascalFrom(token, 1, TRUE)

\* b read back field by field in the stated order gives the fields of t and
\* ends with the payload section.  (The strings of the inputs are ASCII and
\* hold no NUL, so each is delimited by the first 0x00 after its start.)
LayoutHolds(t, b) ==
    LET z1 == ZeroAt(b, 3)
        z2 == ZeroAt(b, z1 + 1)
        z3 == ZeroAt(b, z2 + 1)
        z4 == ZeroAt(b, z3 + 9)
        p  == z4 + 25
    IN  /\ Len(b) >= p
        /\ LittleEndian(SubSeq(b, 1, 2)) = t.version
        /\ SubSeq(b, 3, z1 - 1) = PascalCase(TransactionTypeValue[t.tx_type])
        /\ SubSeq(b, z1 + 1, z2 - 1) = t.sender
        /\ SubSeq(b, z2 + 1, z3 - 1) = t.receiver
        /\ LittleEndian(SubSeq(b, z3 + 1, z3 + 8)) = t.amount.value
        /\ SubSeq(b, z3 + 9, z4 - 1) = t.amount.currency
        /\ LittleEndian(SubSeq(b, z4 + 1, z4 + 8)) = t.fee
        /\ LittleEndian(SubSeq(b, z4 + 9, z4 + 16)) = t.nonce
        /\ LittleEndian(SubSeq(b, z4 + 17, z4 + 24)) = t.timestamp
        /\ IF t.payload = <<>>
           THEN b[p] = 0 /\ Len(b) = p
           ELSE /\ b[p] = 1
                /\ Len(b) = p + 4 + Len(t.payload)
                /\ LittleEndian(SubSeq(b, p + 1, p + 4)) = FromInt(Len(t.payload))
                /\ SubSeq(b, p + 5, Len(b)) = t.payload

\* the calls made so far of one of the two functions
CallsOf(op) == {c \in {calls[i] : i \in 1..Len(calls)} : c.op = op}

\* C6: layout.  Whenever signable_bytes returns, the bytes are the fields in
\* the stated order and widths: version (2 bytes LE), PascalCase type label
\* + 0x00, sender + 0x00, receiver + 0x00, amount.value (8 bytes LE),
\* currency + 0x00, fee, nonce, timestamp (8 bytes LE each), then 0x00 for
\* an empty payload or 0x01 + 4-byte LE length + the payload; nothing else.
C6_Layout ==
    \A c \in CallsOf("signable_bytes") : c.out.ok => LayoutHolds(c.tx, c.out.value)

\* C6 witness: signable_bytes has returned for a Transaction with the
\* 5-byte payload "hello".
C6_Witness ==
    \E c \in CallsOf("signable_bytes") :
        /\ c.out.ok
        /\ c.tx.payload = Hello

\* C7 (as stated): signable_bytes is total.  On every Transaction that
\* passed model validation it returns bytes and does not raise.
C7_Total ==
    \A c \in CallsOf("signable_bytes") : c.out.ok

\* an address decodes under "nova" to exactly 32 bytes
DecodesTo32Bytes(a) ==
    LET d == bech32_decode(a)
    IN  d.ok /\ d.hrp = _BECH32_HRP /\ Len(d.data) = 32

\* C8 (as stated): every address accepted as sender or receiver of a
\* validated Transaction decodes, with a valid checksum and the "nova"
\* prefix, to exactly 32 bytes.
C8_AcceptedAddressIs32Bytes ==
    tx.ok => DecodesTo32Bytes(tx.value.sender) /\ DecodesTo32Bytes(tx.value.receiver)

\* the bytes whose hex the vector is stated with: 98 bytes, amount.value
\* written 40420f00000000 (seven bytes)
VectorBytesAsStated ==
    <<1, 0, 84, 114, 97, 110, 115, 102, 101, 114, 0, 110, 111, 118, 97, 49,
      115, 101, 110, 100, 101, 114, 95, 116, 101, 115, 116, 95, 118, 101,
      99, 116, 111, 114, 0, 110, 111, 118, 97, 49, 114, 101, 99, 101, 105,
      118, 101, 114, 95, 116, 101, 115, 116, 95, 118, 101, 99, 116, 111,
      114, 0, 64, 66, 15, 0, 0, 0, 0, 78, 79, 86, 65, 0, 100, 0, 0, 0, 0, 0,
      0, 0, 42, 0, 0, 0, 0, 0, 0, 0, 0, 104, 229, 207, 139, 1, 0, 0, 0>>

\* the 99 bytes with amount.value written 40420f0000000000 (eight bytes)
VectorBytes ==
    <<1, 0, 84, 114, 97, 110, 115, 102, 101, 114, 0, 110, 111, 118, 97, 49,
      115, 101, 110, 100, 101, 114, 95, 116, 101, 115, 116, 95, 118, 101,
      99, 116, 111, 114, 0, 110, 111, 118, 97, 49, 114, 101, 99, 101, 105,
      118, 101, 114, 95, 116, 101, 115, 116, 95, 118, 101, 99, 116, 111,
      114, 0, 64, 66, 15, 0, 0, 0, 0, 0, 78, 79, 86, 65, 0, 100, 0, 0, 0, 0,
      0, 0, 0, 42, 0, 0, 0, 0, 0, 0, 0, 0, 104, 229, 207, 139, 1, 0, 0, 0>>

\* "a8c099ee823f352281802881bf6b55008b4a0f8813808426fe83017e20a5d147"
VectorId ==
    <<97, 56, 99, 48, 57, 57, 101, 101, 56, 50, 51, 102, 51, 53, 50, 50, 56,
      49, 56, 48, 50, 56, 56, 49, 98, 102, 54, 98, 53, 53, 48, 48, 56, 98,
      52, 97, 48, 102, 56, 56, 49, 51, 56, 48, 56, 52, 50, 54, 102, 101, 56,
      51, 48, 49, 55, 101, 50, 48, 97, 53, 100, 49, 52, 55>>

\* C9 (as stated): signable_bytes of the literal vector is the byte string
\* with the stated hex.
C9_VectorAsStated ==
    \A c \in CallsOf("signable_bytes") :
        c.tx = TestVector => c.out = [ok |-> TRUE, value |-> VectorBytesAsStated]

\* C9 (amended): signable_bytes of the literal vector is the 99-byte string
\* 01005472616e73666572006e6f76613173656e6465725f746573745f766563746f
\* 72006e6f76613172656365697665725f746573745f766563746f720040420f0000
\* 0000004e4f56410064000000000000002a000000000000000068e5cf8b01000000
\* in which amount.value takes eight bytes.
C9_Vector ==
    \A c \in CallsOf("signable_bytes") :
        c.tx = TestVector => c.out = [ok |-> TRUE, value |-> VectorBytes]

\* C9 witness: signable_bytes has been called on the literal vector.
C9_Witness ==
    \E c \in CallsOf("signable_bytes") : c.tx = TestVector /\ c.out.ok

IsLowerHex(ch) == (ch >= 48 /\ ch <= 57) \/ (ch >= 97 /\ ch <= 102)

\* C10: determinism.  Calls of the same function on Transactions with equal
\* fields return the same result whenever they are made; signable_bytes
\* and compute_transaction_id raise on the same Transactions; an id is 64
\* lowercase hex characters; and the id of the literal vector is the
\* double SHA-256 of its signable bytes, a8c099ee...a5d147.
C10_Deterministic ==
    /\ \A c, d \in {calls[i] : i \in 1..Len(calls)} :
           c.tx = d.tx => /\ c.op = d.op => c.out = d.out
                          /\ c.out.ok = d.out.ok
    /\ \A c \in CallsOf("compute_transaction_id") :
           /\ c.out.ok => /\ Len(c.out.value) = 64
                           /\ \A k \in 1..64 : IsLowerHex(c.out.value[k])
           /\ c.tx = TestVector => c.out = [ok |-> TRUE, value |-> VectorId]

\* C10 witness: compute_transaction_id has returned twice for the same
\* Transaction, at two different times.
C10_Witness ==
    /\ Len(calls) = 2
    /\ calls[1].op = "compute_transaction_id"
    /\ calls[2].op = "compute_transaction_id"
    /\ calls[1].at < calls[2].at
    /\ calls[1].out.ok

(***************************************************************************)
(* Properties of the address codec and of the identity functions           *)
(***************************************************************************)
HasLower(s) == \E i \in 1..Len(s) : s[i] >= 97 /\ s[i] <= 122

HasUpper(s) == \E i \in 1..Len(s) : s[i] >= 65 /\ s[i] <= 90

\* position (from 1) of the last "1" of s, 0 when s has none
LastOne(s) ==
    IF \A i \in 1..Len(s) : s[i] # 49 THEN 0
    ELSE CHOOSE i \in 1..Len(s) :
             s[i] = 49 /\ \A j \in (i + 1)..Len(s) : s[j] # 49

\* the 5-bit value of a character of either case, -1 outside the alphabet
CharValue(ch) ==
    LET lc == IF ch >= 65 /\ ch <= 90 THEN ch + 32 ELSE ch
    IN  IF \A j \in 1..32 : _BECH32_CHARSET[j] # lc THEN -1
        ELSE (CHOOSE j \in 1..32 : _BECH32_CHARSET[j] = lc) - 1

\* the characters after the last "1", as 5-bit values
TailValues(s) ==
    [i \in 1..(Len(s) - LastOne(s)) |-> CharValue(s[LastOne(s) + i])]

\* the characters before the last "1", in lower case
PrefixLower(s) ==
    [i \in 1..(LastOne(s) - 1) |->
        IF s[i] >= 65 /\ s[i] <= 90 THEN s[i] + 32 ELSE s[i]]

\* the leftover bits of n 5-bit values are fewer than 5 and all zero
PaddingIsZero(values, n) ==
    /\ (5 * n) % 8 < 5
    /\ n > 0 => values[n] % Pow2((5 * n) % 8) = 0

\* one case, a last "1" after at least one character and before at least
\* six, alphabet characters after it, polymod 1, zero padding
WellFormed(s) ==
    /\ ~(HasLower(s) /\ HasUpper(s))
    /\ LastOne(s) >= 2
    /\ Len(s) - LastOne(s) >= 6
    /\ \A i \in 1..(Len(s) - LastOne(s)) : TailValues(s)[i] >= 0
    /\ _bech32_polymod(_bech32_hrp_expand(PrefixLower(s)) \o TailValues(s)) = 1
    /\ PaddingIsZero(TailValues(s), Len(s) - LastOne(s) - 6)

\* number of whole bytes in the data characters of s
PayloadLen(s) == (5 * (Len(s) - LastOne(s) - 6)) \div 8

\* C12: bech32_decode returns a result exactly for a string that is of one
\* case, has its last "1" in a valid position, has only alphabet characters
\* after it, has a checksum of polymod 1 and has fewer than 5 leftover bits,
\* all zero; the result is the lower-case prefix and the bytes of the data
\* characters.  For every other string it raises and returns no value.
C12_DecodeConditions ==
    \A c \in CallsOf("bech32_decode") :
        /\ c.out.ok <=> WellFormed(c.arg)
        /\ c.out.ok =>
              /\ c.out.hrp = PrefixLower(c.arg)
              /\ Len(c.out.data) = PayloadLen(c.arg)
              /\ _convertbits(c.out.data, 8, 5, TRUE).ret
                     = SubSeq(TailValues(c.arg), 1,
                              Len(c.arg) - LastOne(c.arg) - 6)
        /\ ~c.out.ok => DOMAIN c.out = {"ok", "err"}

\* C12 witness: bech32_decode has refused a string with a valid checksum
\* whose padding bits are not zero.
C12_Witness ==
    \E c \in CallsOf("bech32_decode") :
        /\ ~c.out.ok
        /\ c.out.err = "non-zero padding bits"
        /\ (5 * (Len(c.arg) - LastOne(c.arg) - 6)) % 8 < 5

\* C13 (as stated): bech32_decode rejects every string with fewer than 7
\* characters after its last "1" or with nothing before it.
C13_SeparatorAsStated ==
    \A c \in CallsOf("bech32_decode") :
        (LastOne(c.arg) >= 1
            /\ (Len(c.arg) - LastOne(c.arg) < 7 \/ LastOne(c.arg) = 1))
            => ~c.out.ok

\* C13 (amended): bech32_decode rejects every string with fewer than 6
\* characters after its last "1" or with nothing before it.
C13_Separator ==
    \A c \in CallsOf("bech32_decode") :
        (LastOne(c.arg) >= 1
            /\ (Len(c.arg) - LastOne(c.arg) < 6 \/ LastOne(c.arg) = 1))
            => ~c.out.ok

\* C13 witness: bech32_decode has refused a string with a prefix and 5
\* characters after the separator, or one with no prefix.
C13_Witness ==
    \E c \in CallsOf("bech32_decode") :
        /\ ~c.out.ok
        /\ \/ LastOne(c.arg) >= 2 /\ Len(c.arg) - LastOne(c.arg) = 5
           \/ LastOne(c.arg) = 1 /\ Len(c.arg) > 7

\* C14: parse_nova_id returns the payload exactly when the address decodes,
\* its decoded prefix is "nova" and the payload is 32 bytes.  A decodable
\* string with another prefix raises the HRP error whatever its length; a
\* "nova" string with a payload of another length raises the length error.
C14_ParseNovaId ==
    \A c \in CallsOf("parse_nova_id") :
        /\ ~WellFormed(c.arg) => ~c.out.ok
        /\ WellFormed(c.arg) =>
              IF PrefixLower(c.arg) # <<110, 111, 118, 97>>
              THEN c.out = [ok |-> FALSE, err |-> "expected HRP"]
              ELSE IF PayloadLen(c.arg) # 32
              THEN c.out = [ok |-> FALSE, err |-> "decoded key must be 32 bytes"]
              ELSE c.out = [ok |-> TRUE, value |-> bech32_decode(c.arg).data]

\* C14 witness: parse_nova_id has been given a decodable string with
\* another prefix and a payload that is not 32 bytes.
C14_Witness ==
    \E c \in CallsOf("parse_nova_id") :
        /\ WellFormed(c.arg)
        /\ PrefixLower(c.arg) # <<110, 111, 118, 97>>
        /\ PayloadLen(c.arg) # 32
        /\ ~c.out.ok

\* C15: create_nova_id raises for every input that is not 32 bytes; for a
\* 32-byte input it returns, on every call the same, a string that starts
\* with "nova1" and has no upper-case letter.
C15_CreateNovaId ==
    /\ \A c \in CallsOf("create_nova_id") :
           IF Len(c.arg) # 32 THEN ~c.out.ok
           ELSE /\ c.out.ok
                /\ SubSeq(c.out.value, 1, 5) = <<110, 111, 118, 97, 49>>
                /\ ~HasUpper(c.out.value)
    /\ \A c, d \in CallsOf("create_nova_id") : c.arg = d.arg => c.out = d.out

\* C15 witness: create_nova_id has returned twice for a 32-byte key.
C15_Witness ==
    /\ Len(calls) = 2
    /\ \A i \in 1..2 : calls[i].op = "create_nova_id" /\ calls[i].out.ok
    /\ Len(key) = 32

\* C16: keypair_from_seed raises the length error for every seed that is
\* not 32 bytes; for a 32-byte seed it returns, on every call the same, the
\* seed itself and a 32-byte public key.
C16_KeypairFromSeed ==
    /\ \A c \in CallsOf("keypair_from_seed") :
           IF Len(c.arg) # 32
           THEN c.out = [ok |-> FALSE, err |-> "seed must be exactly 32 bytes"]
           ELSE /\ c.out.ok
                /\ c.out.value[1] = c.arg
                /\ Len(c.out.value[2]) = 32
    /\ \A c, d \in CallsOf("keypair_from_seed") : c.arg = d.arg => c.out = d.out

\* C16 witness: keypair_from_seed has returned twice for a 32-byte seed.
C16_Witness ==
    /\ Len(calls) = 2
    /\ \A i \in 1..2 : calls[i].op = "keypair_from_seed" /\ calls[i].out.ok
    /\ Len(key) = 32

\* the signature is the one the seed in hand makes for the message, and the
\* public key is that seed's
Genuine(a) ==
    /\ a.public_key = VerifyKeyOf(key)
    /\ a.signature = Ed25519Sign(key, a.message)

\* C17: verify_signature never raises and returns a boolean; it returns True
\* exactly when the signature is the signature of that message under that
\* public key, and False for a key or a signature of the wrong length, for
\* another message and for another key.
C17_VerifySignature ==
    \A c \in CallsOf("verify_signature") :
        /\ c.out.ok
        /\ c.out.value \in BOOLEAN
        /\ c.out.value <=> Genuine(c.arg)
        /\ (Len(c.arg.public_key) # 32 \/ c.arg.signature.len # 64)
               => ~c.out.value

\* C17 witness: verify_signature has answered for a genuine signature and
\* then for a public key of the wrong length.
C17_Witness ==
    /\ Len(calls) = 2
    /\ calls[1].op = "verify_signature" /\ calls[1].out.value
    /\ calls[2].op = "verify_signature" /\ ~calls[2].out.value
    /\ Len(calls[2].arg.public_key) # 32

(***************************************************************************)
(* Properties of sign_transaction, of assignment and of the builder        *)
(***************************************************************************)
\* C18: for any Transaction and any 32-byte seed, whether or not the seed's
\* address is the sender, sign_transaction returns a SignedTransaction
\* whose transaction equals the one given field for field, whose
\* public_key is the 32-byte key of the seed and whose signature is the
\* 64-byte signature of signable_bytes(tx) under the seed.
C18_SignFrame ==
    (tx.ok /\ signed # None /\ tampered = "none") =>
        /\ signed.ok
        /\ signed.value.transaction = tx.value
        /\ signed.value.public_key = VerifyKeyOf(seed)
        /\ Len(signed.value.public_key) = 32
        /\ signed.value.signature.len = 64
        /\ signed.value.signature
               = Ed25519Sign(seed, signable_bytes(tx.value).value)

\* C19: a constructed Transaction is immutable: every attempted assignment
\* to one of its fields is rejected and leaves the Transaction unchanged.
C19_Immutable ==
    \A c \in CallsOf("setattr") : ~c.out /\ c.after = c.before

\* the methods called on the builder in hand
Called == {calls[i].op : i \in 1..Len(calls)}

\* the required fields that were never set, in the order build() looks at
\* them
NeverSet ==
    SelectSeq(<<"type", "sender", "receiver", "amount", "nonce">>,
              LAMBDA m : m \notin Called)

\* C20 (as stated): build() raises, and produces no Transaction, exactly
\* when a required field (type, sender, receiver, amount, nonce) was never
\* set; the error names every missing field; with the five set and nothing
\* else, the Transaction has version 1, fee 0 and an empty payload.
C20_BuildAsStated ==
    (builder # None /\ tx # None) =>
        /\ ~tx.ok <=> NeverSet # <<>>
        /\ NeverSet # <<>> => tx = RaiseMissing(NeverSet)
        /\ Called = {"type", "sender", "receiver", "amount", "nonce"} =>
              /\ tx.value.version = FromInt(1)
              /\ tx.value.fee = FromInt(0)
              /\ tx.value.payload = <<>>

\* C20 (amended): build() raises the missing-fields error, and produces no
\* Transaction, exactly when a required field was never set, and the error
\* names every missing field; with the five set it raises only when the
\* Transaction model rejects a value; with the five set to accepted values
\* and nothing else set, the Transaction has version 1, fee 0 and an empty
\* payload.
C20_Build ==
    (builder # None /\ tx # None) =>
        /\ NeverSet # <<>> => tx = RaiseMissing(NeverSet)
        /\ NeverSet = <<>> =>
              \/ tx.ok
              \/ tx = [ok |-> FALSE, err |-> "ValidationError"]
        /\ (tx.ok /\ Called = {"type", "sender", "receiver", "amount", "nonce"}) =>
              /\ tx.value.version = FromInt(1)
              /\ tx.value.fee = FromInt(0)
              /\ tx.value.payload = <<>>

\* C20 witness: build() has raised for a builder on which fee was set and
\* at least two required fields were not.
C20_Witness ==
    /\ builder # None
    /\ tx # None
    /\ ~tx.ok
    /\ "fee" \in Called
    /\ Len(NeverSet) >= 2

(***************************************************************************)
(* Properties of the builder's timestamp and of the type vocabularies      *)
(***************************************************************************)
\* C21: when timestamp() was never called, build() stamps the Transaction
\* with the epoch time in milliseconds at build time (a value within the
\* clock's current second, now * 1000 + 0..999); when timestamp(ts) was
\* called, the Transaction's timestamp is ts.
C21_Timestamp ==
    (builder # None /\ tx # None /\ tx.ok) =>
        IF "timestamp" \in Called
        THEN \A i \in 1..Len(calls) :
                 calls[i].op = "timestamp" => tx.value.timestamp = calls[i].arg
        ELSE \E ms \in 0..999 : tx.value.timestamp = FromInt((now * 1000) + ms)

\* sub occurs in b as a run of consecutive elements
Occurs(sub, b) ==
    \E i \in 1..(Len(b) - Len(sub) + 1) : SubSeq(b, i, i + Len(sub) - 1) = sub

\* the type label read back from signable bytes: the bytes after the 2-byte
\* version up to the first 0x00
LabelOf(b) == SubSeq(b, 3, ZeroAt(b, 3) - 1)

\* C22: the two vocabularies are separate, total and injective.  Every
\* variant has a PascalCase wire label and a snake_case token, the label is
\* the PascalCase form of the token and differs from it, distinct variants
\* have distinct labels and distinct tokens, there are five of each, and
\* what signable_bytes writes is the label of the Transaction's variant,
\* never its token.
C22_Vocabularies ==
    /\ DOMAIN _TX_TYPE_WIRE = TransactionType
    /\ DOMAIN TransactionTypeValue = TransactionType
    /\ Cardinality({_TX_TYPE_WIRE[t] : t \in TransactionType}) = 5
    /\ Cardinality({TransactionTypeValue[t] : t \in TransactionType}) = 5
    /\ \A t, u \in TransactionType :
           /\ _TX_TYPE_WIRE[t] = PascalCase(TransactionTypeValue[t])
           /\ _TX_TYPE_WIRE[t] # TransactionTypeValue[u]
           /\ t # u => /\ _TX_TYPE_WIRE[t] # _TX_TYPE_WIRE[u]
                       /\ TransactionTypeValue[t] # TransactionTypeValue[u]
    /\ \A c \in CallsOf("signable_bytes") :
           c.out.ok =>
               /\ LabelOf(c.out.value) = PascalCase(TransactionTypeValue[c.tx.tx_type])
               /\ \A u \in TransactionType :
                      /\ ~Occurs(TransactionTypeValue[u], c.out.value)
                      /\ u # c.tx.tx_type =>
                             LabelOf(c.out.value) # PascalCase(TransactionTypeValue[u])

\* C22 witness: signable_bytes has returned for a TOKEN_BURN Transaction and
\* for no other variant.
C22_Witness ==
    /\ \E c \in CallsOf("signable_bytes") : c.out.ok /\ c.tx.tx_type = "token_burn"
    /\ \A c \in CallsOf("signable_bytes") : c.tx.tx_type = "token_burn"

(***************************************************************************)
(* Properties of validated Transactions                                    *)
(***************************************************************************)
\* the UTF-8 bytes of s hold no 0x00
NoNul(s) == \A i \in 1..Len(Utf8(s)) : Utf8(s)[i] # 0

\* C27: in every Transaction that passes validation, none of the string
\* fields written with a 0x00 terminator (the wire label, sender, receiver,
\* amount.currency) contains a 0x00 byte.
C27_NoNul ==
    \A c \in CallsOf("Transaction") :
        c.out.ok =>
            /\ NoNul(_TX_TYPE_WIRE[c.out.value.tx_type])
            /\ NoNul(c.out.value.sender)
            /\ NoNul(c.out.value.receiver)
            /\ NoNul(c.out.value.amount.currency)

\* s and t are the same string up to the case of the ASCII letters
SameUpToCase(s, t) ==
    /\ Len(s) = Len(t)
    /\ \A i \in 1..Len(s) :
           \/ s[i] = t[i]
           \/ s[i] >= 65 /\ s[i] <= 90 /\ t[i] = s[i] + 32
           \/ t[i] >= 65 /\ t[i] <= 90 /\ s[i] = t[i] + 32

\* stored is the address given, entirely in lowercase, starting with
\* "nova1" and well formed (valid checksum)
Normalised(given, stored) ==
    /\ SameUpToCase(given, stored)
    /\ ~HasUpper(stored)
    /\ SubSeq(stored, 1, 5) = <<110, 111, 118, 97, 49>>
    /\ WellFormed(stored)

\* the second and third 0x00-terminated fields of signable bytes
SenderOf(b) == SubSeq(b, ZeroAt(b, 3) + 1, ZeroAt(b, ZeroAt(b, 3) + 1) - 1)

ReceiverOf(b) ==
    LET z2 == ZeroAt(b, ZeroAt(b, 3) + 1)
    IN  SubSeq(b, z2 + 1, ZeroAt(b, z2 + 1) - 1)

\* C29: address case is normalised at validation.  Whatever the case of the
\* sender and receiver given (lowercase, uppercase or mixed), a Transaction
\* that validates stores each entirely in lowercase, starting with "nova1"
\* and with a valid checksum, and its signable bytes hold the lowercase
\* addresses.
C29_CaseNormalised ==
    /\ \A c \in CallsOf("Transaction") :
           c.out.ok =>
               /\ Normalised(c.arg.sender, c.out.value.sender)
               /\ Normalised(c.arg.receiver, c.out.value.receiver)
    /\ \A c \in CallsOf("signable_bytes") :
           c.out.ok =>
               /\ ~HasUpper(SenderOf(c.out.value))
               /\ ~HasUpper(ReceiverOf(c.out.value))
               /\ SameUpToCase(SenderOf(c.out.value), calls[1].arg.sender)
               /\ SameUpToCase(ReceiverOf(c.out.value), calls[1].arg.receiver)

\* C29 witness: a Transaction given a mixed-case sender and an uppercase
\* receiver validated, and signable_bytes returned for it.
C29_Witness ==
    /\ Len(calls) = 2
    /\ calls[1].out.ok
    /\ HasUpper(calls[1].arg.sender) /\ HasLower(SubSeq(calls[1].arg.sender, 6, 20))
    /\ ~HasLower(calls[1].arg.receiver)
    /\ calls[2].out.ok

(***************************************************************************)
(* Properties of the order of the checks in verify_transaction             *)
(***************************************************************************)
\* C28: verify_transaction checks the signature before decoding the sender.
\* When the signature is invalid it returns False, also when the sender is
\* undecodable; it raises only when the signature is valid and the sender
\* does not decode as a 32-byte "nova" address.
C28_SignatureFirst ==
    verdict # None =>
        LET message == signable_bytes(signed.value.transaction)
            valid == /\ message.ok
                     /\ verify_signature(signed.value.public_key, message.value,
                                         signed.value.signature)
        IN  /\ ~valid => verdict = ReturnsFalse
            /\ ~verdict.ok =>
                   valid /\ ~parse_nova_id(signed.value.transaction.sender).ok

(***************************************************************************)
(* Properties of the builder's setters                                     *)
(***************************************************************************)
\* the positions of the calls of setter m
SetAt(m) == {i \in 1..Len(calls) : calls[i].op = m}

\* the argument of the last call of setter m
LastArg(m) == calls[CHOOSE i \in SetAt(m) : \A j \in SetAt(m) : j <= i].arg

\* the field value after the calls recorded: that of the last call of its
\* setter, the starting value when the setter was never called
FieldAfter(m, start, wrap) ==
    IF SetAt(m) = {} THEN start
    ELSE IF wrap THEN IsSet(LastArg(m)) ELSE LastArg(m)

\* the builder the recorded calls lead to, field by field
ExpectedBuilder ==
    LET b0 == calls[1].arg
    IN  [_version         |-> FieldAfter("version", b0._version, FALSE),
         _tx_type         |-> FieldAfter("type", b0._tx_type, TRUE),
         _sender          |-> FieldAfter("sender", b0._sender, TRUE),
         _receiver        |-> FieldAfter("receiver", b0._receiver, TRUE),
         _amount_value    |-> IF SetAt("amount") = {} THEN b0._amount_value
                              ELSE IsSet(LastArg("amount")[1]),
         _amount_currency |-> IF SetAt("amount") = {} THEN b0._amount_currency
                              ELSE IsSet(LastArg("amount")[2]),
         _fee             |-> FieldAfter("fee", b0._fee, FALSE),
         _nonce           |-> FieldAfter("nonce", b0._nonce, TRUE),
         _payload         |-> FieldAfter("payload", b0._payload, FALSE),
         _timestamp       |-> FieldAfter("timestamp", b0._timestamp, TRUE)]

\* C30: each setter changes only its own field and returns the same builder,
\* the last value set wins, and build() leaves every field unchanged: after
\* any sequence of calls each field holds the argument of the last call of
\* its setter (its starting value if there was none), whatever the order of
\* the calls and however many build() calls followed.  Two consecutive
\* build() calls on a builder with an explicit timestamp return equal
\* Transactions.
C30_SetterFrame ==
    (calls # <<>> /\ calls[1].op = "start") =>
        /\ builder = ExpectedBuilder
        /\ \A i, j \in SetAt("build") :
               (builder._timestamp.set /\ calls[i].out.ok) =>
                   calls[i].out = calls[j].out

\* C30 witness: a setter was called twice with different arguments, then
\* build() returned a Transaction twice, at different times.
C30_Witness ==
    /\ calls # <<>> /\ calls[1].op = "start"
    /\ \E i, j \in SetAt("timestamp") : calls[i].arg # calls[j].arg
    /\ \E i, j \in SetAt("build") :
           calls[i].out.ok /\ calls[j].out.ok /\ calls[i].at < calls[j].at

(***************************************************************************)
(* Properties of NovaClient                                                *)
(***************************************************************************)
\* the positions of the requests recorded for client c with operation op
RequestsOf(c, op) ==
    {i \in 1..Len(calls) : calls[i].client = c /\ calls[i].op = op}

\* C23: on a transient failure (connection error or timeout) the request is
\* attempted again, up to `retries` times, before NovaConnectionError is
\* reported: a call that reported NovaConnectionError made 1 + retries
\* attempts, each answered by a connection error or a timeout.
C23_Retries ==
    \A i \in 1..Len(calls) :
        (calls[i].op = "_rpc_call" /\ calls[i].out = Raise("NovaConnectionError"))
            => Len(calls[i].replies) = 1 + clients[calls[i].client]._retries

\* C24: request ids belong to one NovaClient and are never reused.  The
\* k-th _rpc_call started on a client carries id k, the client's counter is
\* the number of _rpc_call requests it has started (returned, failed or in
\* flight; GET requests and the other client's calls leave it alone), and
\* no two requests of one client carry the same id.
C24_RequestIds ==
    \A c \in DOMAIN clients :
        /\ clients[c]._request_id = Cardinality(RequestsOf(c, "_rpc_call"))
        /\ \A i \in RequestsOf(c, "_rpc_call") :
               calls[i].id =
                   Cardinality({j \in RequestsOf(c, "_rpc_call") : j <= i})
        /\ \A i, j \in RequestsOf(c, "_rpc_call") :
               i # j => calls[i].id # calls[j].id

\* C24 witness: two _rpc_call requests of one client are in flight at once
\* while the other client has started none.
C24_Witness ==
    \E c \in DOMAIN clients :
        /\ \E i, j \in RequestsOf(c, "_rpc_call") :
               i # j /\ calls[i].out = None /\ calls[j].out = None
        /\ \A d \in DOMAIN clients \ {c} : RequestsOf(d, "_rpc_call") = {}

\* C25: health() returns True exactly when GET /health is answered with
\* status 200, and returns False, raising nothing, on a connection error, a
\* timeout, any other HTTP-level error and any other status.
C25_Health ==
    \A i \in 1..Len(calls) :
        (calls[i].op = "health" /\ calls[i].replies # <<>>) =>
            /\ calls[i].out.ok
            /\ calls[i].out.value =
                   (calls[i].replies[1] \in {Response(200, FALSE)})

\* C25 witness: one health() call was answered 200 and another met an
\* HTTP-level error that is neither a connection error nor a timeout.
C25_Witness ==
    \E i, j \in 1..Len(calls) :
        /\ calls[i].op = "health" /\ calls[i].replies = <<Response(200, FALSE)>>
        /\ calls[j].op = "health" /\ calls[j].replies = <<Raises("ReadError")>>

\* a step of client c that sends and receives nothing is a lifecycle call:
\* entering `async with` leaves the HTTP client open, leaving it leaves the
\* HTTP client closed, and any other change is close() on an open client;
\* the counter and the settings stay as they are
LifecycleStep(c) ==
    (calls' = calls /\ clients'[c] # clients[c]) =>
        /\ clients'[c]._request_id = clients[c]._request_id
        /\ clients'[c]._retries = clients[c]._retries
        /\ (~clients[c].within /\ clients'[c].within) => clients'[c]._client = "open"
        /\ (clients[c].within /\ ~clients'[c].within) => clients'[c]._client = "closed"
        /\ (clients[c].within = clients'[c].within) =>
               clients[c]._client = "open" /\ clients'[c]._client = "closed"

\* C26: a request is never sent on a closed HTTP client.  Every request
\* goes out on an open client, a new one when there was none or it was
\* closed, the one in place otherwise; close() closes an open client and
\* changes nothing else; after leaving `async with` the client is closed.
C26_Lifecycle ==
    /\ [](\A i \in 1..Len(calls) :
              (calls[i].op \in {"_rpc_call", "health"}) => calls[i].on = "open")
    /\ [](\A c \in DOMAIN clients :
              (RequestsOf(c, "_rpc_call") \cup RequestsOf(c, "health") # {})
                  => clients[c]._client # "None")
    /\ [][\A c \in DOMAIN clients : LifecycleStep(c)]_vars

\* C26 witness: a request was sent after close() and reopened the
\* connection, and the client has been closed again by leaving `async with`.
C26_Witness ==
    \E i \in 1..Len(calls) :
        /\ calls[i].op \in {"_rpc_call", "health"}
        /\ calls[i].before = "closed"
        /\ calls[i].on = "open"
        /\ clients[calls[i].client]._client = "closed"

====
